---- MODULE Spec2Model ----
(***************************************************************************)
(* Orbital: polyphonic FM synthesizer core.                                *)
(*   crates/orbital/src/lib.rs        plugin glue (process, initialize,    *)
(*                                    deactivate, control-channel drain)   *)
(*   crates/orbital/src/osc_array.rs  voice allocator (OscArray)           *)
(*   crates/orbital/src/envelope.rs   per-voice envelope                   *)
(*   crates/orbital/src/osc.rs        oscillator bank (step_simd)          *)
(*                                                                         *)
(* Units.  Time is counted in sample periods (ticks) of the host's sample  *)
(* rate, which is taken to be 110 Hz, so that 0.1 s = 11 ticks.  Phases    *)
(* are counted in quarter turns (TWOPI = 4), where cos is exactly 1, 0,    *)
(* -1, 0.  Frequencies are counted in quarter turns per tick, i.e. in      *)
(* units of 27.5 Hz, so that 2*pi*f*d_sec is f phase units.  Levels        *)
(* (sustain_level) are counted in tenths.  Floating-point rounding is not  *)
(* modelled.                                                               *)
(***************************************************************************)
EXTENDS Integers, Sequences, FiniteSets, TLC

VARIABLES
    voices,          \* OscArray.voices: [0..VOICE_COUNT-1 -> OscVoiceState]
    primary_osc,     \* OscillatorBank.primary_osc, flattened voice*count+slot
    modulator_osc,   \* OscillatorBank.modulator_osc, flattened
    settings,        \* OscillatorBank.{mod_ty, gain_ty, reset_phase}
    transport_time,  \* Orbital.transport_time
    params,          \* OrbitalParams: host parameters and persisted fields
    chan,            \* com_channel: messages sent and not yet received
    connected,       \* com_channel: some Sender is still alive
    ui_locks,        \* which of the params' locks the UI thread holds
    active,          \* host lifecycle: initialize called, not yet deactivated
    pc,              \* position of the audio thread inside Orbital::process
    call,            \* locals and observations of the current process call
    hist,            \* history of the control channel: sent, applied, logged
    out,             \* value returned by the last step_simd, times AccScale
    panicked         \* an array index was out of bounds: the thread unwound

vars == << voices, primary_osc, modulator_osc, settings, transport_time,
           params, chan, connected, ui_locks, active, pc, call, hist, out,
           panicked >>

----------------------------------------------------------------------------
(* Bounds of the model. *)

\* Number of voices.  osc.rs:243 sets 10; the model keeps the allocator's
\* structure with a smaller pool.
VOICE_COUNT == 2

\* Number of try_recv iterations per process call.  lib.rs:243 sets 10; the
\* model keeps the loop's structure with a smaller limit.
DRAIN_TRIES == 2

\* Largest transport_time a process call may start from.
MaxTime == 1

\* Largest number of messages the UI sends over the lifetime.
MaxSent == 3

\* Largest number of step_simd calls in the bank-only specification.
MaxSteps == 2

\* Longest stage of an envelope, in ticks, in the envelope-only specification.
MaxDur == 2

\* Latest press event in the envelope-only specification.
MaxPress == 1

\* Largest number of frames the editor handles in the editor-only
\* specification.
MaxFrames == 2

\* The buffer.samples() the host asks for.
BlockSizes == { 1, 2 }

----------------------------------------------------------------------------
(* Program constants. *)

\* osc.rs:245
PRIMARY_OSC_COUNT == 8
\* width of the simd::f32x4 lanes, osc.rs:474,531,578
LANE == 4
\* osc.rs:247 sets 16, four lanes of modulators; the model keeps one lane.
MOD_OSC_COUNT == 1 * LANE
\* orbital.rs:28, in quarter turns
TWOPI == 4
\* orbital.rs:199, 440 Hz in units of 27.5 Hz
ABS_BASE_FREQ == 16

PRIMARY_BANK_SIZE == VOICE_COUNT * PRIMARY_OSC_COUNT
MODULATOR_BANK_SIZE == VOICE_COUNT * MOD_OSC_COUNT

\* Option::None of an Option<Time>
None == 0 - 1

\* The sample returned by step_simd is kept as a multiple of 1/AccScale, the
\* least common multiple of the possible lane counts 1..LANE.
AccScale == 3 * LANE

Voices == 0 .. (VOICE_COUNT - 1)

----------------------------------------------------------------------------
(* Small helpers. *)

Min(a, b) == IF a < b THEN a ELSE b

RECURSIVE Pow2(_)
Pow2(n) == IF n <= 0 THEN 1 ELSE 2 * Pow2(n - 1)

RECURSIVE SumOver(_, _)
SumOver(S, f) ==
    IF S = {} THEN 0
    ELSE LET x == CHOOSE y \in S : TRUE IN f[x] + SumOver(S \ {x}, f)

\* C's fmodf: the result has the sign of the dividend.
Fmodf(x, m) == IF x >= 0 THEN x % m ELSE -((-x) % m)

\* cos of a phase given in quarter turns.
Cos(p) == CASE p % 4 = 0 -> 1
            [] p % 4 = 1 -> 0
            [] p % 4 = 2 -> -1
            [] p % 4 = 3 -> 0

\* nih_plug::util::midi_note_to_freq: 440 Hz * 2^((note - 69) / 12), for the
\* notes an octave apart from note 21 (27.5 Hz), in units of 27.5 Hz.
midi_note_to_freq(note) == Pow2((note - 21) \div 12)

----------------------------------------------------------------------------
(* envelope.rs *)

\* EnvelopeParams::default: delay 0, attack 0.2 s, hold 0.1 s, decay 0.1 s,
\* sustain_level 0.8, release 0.1 s.
DefaultEnvelopeParams ==
    [ delay |-> 0, attack |-> 22, hold |-> 11, decay |-> 11,
      sustain_level |-> 8, release |-> 11 ]

\* Envelope::default
DefaultEnvelope ==
    [ press |-> None, release |-> None, parameters |-> DefaultEnvelopeParams ]

\* Envelope::on_press
on_press(env, at) == [ env EXCEPT !.press = at, !.release = None ]

\* Envelope::on_release
on_release(env, at) == [ env EXCEPT !.release = at ]

reset_press_only(env) == [ env EXCEPT !.press = None ]

\* Envelope::reset
reset(env) == [ env EXCEPT !.press = None, !.release = None ]

after_sampling_le(env, at) ==
    IF env.release # None
    THEN (env.release + env.parameters.release) <= at
    ELSE FALSE

\* Envelope::after_sampling
after_sampling(env, at) ==
    IF env.release # None
    THEN (env.release + env.parameters.release) < at
    ELSE FALSE

\* The f32 values of the envelope are exact multiples of 1/One, or NaN: One
\* is chosen so that every interpolation between stages of at most MaxDur
\* ticks is exact.  Level(l) is the level l given in tenths.
RECURSIVE Factorial(_)
Factorial(n) == IF n <= 1 THEN 1 ELSE n * Factorial(n - 1)
Level(l) == l * Factorial(MaxDur) * Factorial(MaxDur)
One == Level(10)
F32(v) == [ nan |-> FALSE, v |-> v ]
NaN == [ nan |-> TRUE, v |-> 0 ]

\* `((n / d) as f32).clamp(0.0, 1.0)` for d >= 0, as the fraction n / d:
\* x / 0.0 is +inf for x > 0, -inf for x < 0 and NaN for x = 0, and
\* f32::clamp keeps a NaN.
clamped_ratio(n, d) ==
    IF d = 0 THEN IF n = 0 THEN [ nan |-> TRUE, n |-> 0, d |-> 1 ]
                  ELSE IF n > 0 THEN [ nan |-> FALSE, n |-> 1, d |-> 1 ]
                  ELSE [ nan |-> FALSE, n |-> 0, d |-> 1 ]
    ELSE IF n <= 0 THEN [ nan |-> FALSE, n |-> 0, d |-> 1 ]
    ELSE IF n >= d THEN [ nan |-> FALSE, n |-> 1, d |-> 1 ]
    ELSE [ nan |-> FALSE, n |-> n, d |-> d ]

\* lerp, envelope.rs:175-177: (b * alpha) + (a * (1.0 - alpha))
lerp(a, b, alpha) ==
    IF a.nan \/ b.nan \/ alpha.nan THEN NaN
    ELSE F32((b.v * alpha.n + a.v * (alpha.d - alpha.n)) \div alpha.d)

step_linear_hold_le(env, at) ==
    IF env.press = None THEN F32(0)
    ELSE
      LET p == env.parameters
          sustain == F32(Level(p.sustain_level))
          local0 == at - env.press
          local1 == local0 - p.delay
          local2 == local1 - p.attack
          local3 == local2 - p.hold
      IN
      IF local0 > p.delay + p.attack + p.hold + p.decay THEN sustain
      ELSE IF local0 < p.delay THEN F32(0)
      ELSE IF local1 < p.attack
           THEN lerp(F32(0), F32(One), clamped_ratio(local1, p.attack))
      ELSE IF local2 <= p.hold THEN F32(One)
      ELSE IF local3 < p.decay
           THEN lerp(F32(One), sustain, clamped_ratio(local3, p.decay))
      ELSE sustain

\* Envelope::step_linear; local0 .. local3 are the values of `local` after
\* each subtraction.
step_linear(env, at) ==
    IF env.press = None THEN F32(0)
    ELSE
      LET p == env.parameters
          sustain == F32(Level(p.sustain_level))
          local0 == at - env.press
          local1 == local0 - p.delay
          local2 == local1 - p.attack
          local3 == local2 - p.hold
      IN
      IF local0 > p.delay + p.attack + p.hold + p.decay THEN sustain
      ELSE IF local0 < p.delay THEN F32(0)
      ELSE IF local1 < p.attack
           THEN lerp(F32(0), F32(One), clamped_ratio(local1, p.attack))
      ELSE IF local2 < p.hold THEN F32(One)
      ELSE IF local3 < p.decay
           THEN lerp(F32(One), sustain, clamped_ratio(local3, p.decay))
      ELSE sustain

\* Envelope::sample
envelope_sample(env, at) ==
    IF env.press = None THEN F32(0)
    ELSE IF env.release # None
    THEN LET relo == at - env.release IN
         IF relo < 0 THEN step_linear(env, at)
         ELSE IF relo > env.parameters.release THEN F32(0)
         ELSE lerp(step_linear(env, env.release), F32(0),
                   clamped_ratio(relo, env.parameters.release))
    ELSE step_linear(env, at)

----------------------------------------------------------------------------
(* osc_array.rs *)

\* OscVoiceState::default
DefaultVoice ==
    [ env |-> DefaultEnvelope, state |-> "Off", note |-> 0, freq |-> 0 ]

is_off(v) == v.state = "Off"

\* The voice note_on takes: the first one that is Off; VOICE_COUNT if none.
RECURSIVE FirstOffFrom(_, _)
FirstOffFrom(vs, i) ==
    IF i >= VOICE_COUNT THEN VOICE_COUNT
    ELSE IF is_off(vs[i]) THEN i
    ELSE FirstOffFrom(vs, i + 1)

LastOff(vs) ==
    IF \E i \in Voices : is_off(vs[i])
    THEN CHOOSE i \in Voices :
            is_off(vs[i]) /\ \A j \in Voices : is_off(vs[j]) => j <= i
    ELSE VOICE_COUNT

FirstOff(vs) == FirstOffFrom(vs, 0)

note_on_voices_steal(vs, note, at) ==
    LET vidx == IF FirstOff(vs) = VOICE_COUNT THEN 0 ELSE FirstOff(vs) IN
    [ vs EXCEPT ![vidx] =
        [ env   |-> on_press(vs[vidx].env, at),
          state |-> "On",
          note  |-> note,
          freq  |-> midi_note_to_freq(note) ] ]

\* OscArray::note_on, the part that writes the voice.
note_on_voices(vs, note, at) ==
    LET vidx == FirstOff(vs) IN
    IF vidx = VOICE_COUNT THEN vs
    ELSE [ vs EXCEPT ![vidx] =
             [ env   |-> on_press(vs[vidx].env, at),
               state |-> "On",
               note  |-> note,
               freq  |-> midi_note_to_freq(note) ] ]

note_off_first(vs, note, at) ==
    IF \E i \in Voices : vs[i].note = note /\ ~is_off(vs[i])
    THEN LET f == CHOOSE i \in Voices :
                    /\ vs[i].note = note /\ ~is_off(vs[i])
                    /\ \A j \in Voices :
                          (vs[j].note = note /\ ~is_off(vs[j])) => i <= j
         IN [ vs EXCEPT ![f] = [ @ EXCEPT !.env = on_release(@, at),
                                         !.state = "Released" ] ]
    ELSE vs

\* OscArray::note_off
note_off(vs, note, at) ==
    [ i \in Voices |->
        IF vs[i].note = note /\ ~is_off(vs[i])
        THEN [ vs[i] EXCEPT !.env = on_release(@, at), !.state = "Released" ]
        ELSE vs[i] ]

\* OscArray::set_envelopes
set_envelopes(vs, new) ==
    [ i \in Voices |-> [ vs[i] EXCEPT !.env.parameters = new ] ]

\* OscArray::process, the loop that turns elapsed voices off.
reclaim(vs, buffer_time_start) ==
    [ i \in Voices |->
        IF after_sampling(vs[i].env, buffer_time_start)
        THEN [ vs[i] EXCEPT !.state = "Off", !.env = reset(@),
                            !.freq = 0, !.note = 0 ]
        ELSE vs[i] ]

----------------------------------------------------------------------------
(* osc.rs, osc/primary.rs, osc/modulator.rs *)

\* ParentIndex::Primary(i), ParentIndex::Modulator(i)
Primary(i) == [ kind |-> "Primary", index |-> i ]
Modulator(i) == [ kind |-> "Modulator", index |-> i ]

\* PrimaryOsc::default
DefaultPrimaryOsc == [ speed_index |-> 0, volume |-> 0, is_on |-> FALSE ]

\* ModulatorOsc::default
DefaultModulatorOsc ==
    [ parent_osc_slot |-> Primary(0), is_on |-> FALSE, range |-> 0,
      speed_index |-> 0 ]

\* Oscillator::default
DefaultOscillator(osc) ==
    [ osc |-> osc, mod_multiplier |-> 1, mod_counter |-> 0, offset |-> 0,
      phase |-> 0 ]

\* OscillatorBank::default, the two arrays
DefaultPrimaryBank ==
    [ i \in 0 .. (PRIMARY_BANK_SIZE - 1) |-> DefaultOscillator(DefaultPrimaryOsc) ]
DefaultModulatorBank ==
    [ i \in 0 .. (MODULATOR_BANK_SIZE - 1) |->
        DefaultOscillator(DefaultModulatorOsc) ]

\* OscillatorBank::default, the settings: ModulationType::default,
\* GainType::default, reset_phase
DefaultSettings ==
    [ mod_ty |-> "Relative", gain_ty |-> "Sigmoid", reset_phase |-> FALSE ]

\* OscillatorBank::primary_osc_index, modulator_osc_index
primary_osc_index(voice, osc) == voice * PRIMARY_OSC_COUNT + osc
modulator_osc_index(voice, osc) == voice * MOD_OSC_COUNT + osc

\* PrimaryOsc::freq, ModulatorOsc::freq, followed by .max(0.0); speed_index
\* is kept >= 0 in the model
freq(osc, base_frequency) ==
    LET f == base_frequency * Pow2(osc.speed_index) IN IF f < 0 THEN 0 ELSE f

\* Oscillator::freq_multiplier.  The model only builds topologies in which
\* the division is exact.
freq_multiplier(o) ==
    IF o.mod_counter = 0 THEN 1 ELSE o.mod_multiplier \div o.mod_counter

\* OscillatorBank::phase_step, one lane entry; d_sec * 2 pi is the unit
phase_step(bases, multiplier, current_phase) ==
    Fmodf(current_phase + bases * multiplier, TWOPI)

\* OscillatorBank::simd_sample, one lane entry
simd_sample(phase, offset, volume) == Cos(phase + offset) * volume

on_primary_osc_line_first_voice(prim, pstate) ==
    IF pstate.slot >= PRIMARY_OSC_COUNT THEN prim
    ELSE [ prim EXCEPT ![pstate.slot].offset = pstate.offset,
                       ![pstate.slot].osc = pstate.state ]

\* OscillatorBank::on_primary_osc_line with the closure of on_state_change
on_primary_osc_line(prim, pstate) ==
    IF pstate.slot >= PRIMARY_OSC_COUNT THEN prim
    ELSE [ i \in DOMAIN prim |->
             IF i % PRIMARY_OSC_COUNT = pstate.slot
             THEN [ prim[i] EXCEPT !.offset = pstate.offset,
                                   !.osc = pstate.state ]
             ELSE prim[i] ]

\* OscillatorBank::on_modulator_osc_line with the closure of on_state_change
on_modulator_osc_line(modu, mstate) ==
    IF mstate.slot >= MOD_OSC_COUNT THEN modu
    ELSE [ i \in DOMAIN modu |->
             IF i % MOD_OSC_COUNT = mstate.slot
             THEN [ modu[i] EXCEPT !.offset = mstate.offset,
                                   !.osc = mstate.state ]
             ELSE modu[i] ]

RECURSIVE ApplyPrimaryStates(_, _)
ApplyPrimaryStates(prim, states) ==
    IF states = << >> THEN prim
    ELSE ApplyPrimaryStates(on_primary_osc_line(prim, Head(states)),
                            Tail(states))

RECURSIVE ApplyModulatorStates(_, _)
ApplyModulatorStates(modu, states) ==
    IF states = << >> THEN modu
    ELSE ApplyModulatorStates(on_modulator_osc_line(modu, Head(states)),
                              Tail(states))

on_state_change_primary_keep(prim, new) ==
    ApplyPrimaryStates(prim, new.primary_states)

\* OscillatorBank::on_state_change, the primary array
on_state_change_primary(prim, new) ==
    ApplyPrimaryStates(
        [ i \in DOMAIN prim |-> [ prim[i] EXCEPT !.osc.is_on = FALSE ] ],
        new.primary_states)

\* OscillatorBank::on_state_change, the modulator array
on_state_change_modulator(modu, new) ==
    ApplyModulatorStates(
        [ i \in DOMAIN modu |-> [ modu[i] EXCEPT !.osc.is_on = FALSE ] ],
        new.modulator_states)

\* OscillatorBank::reset_voice, the primary array
reset_voice_primary(prim, voice_idx) ==
    [ i \in DOMAIN prim |->
        IF i \div PRIMARY_OSC_COUNT = voice_idx
        THEN [ prim[i] EXCEPT !.phase = 0 ] ELSE prim[i] ]

reset_voice_modulator_none(modu, voice_idx) == modu

\* OscillatorBank::reset_voice, the modulator array
reset_voice_modulator(modu, voice_idx) ==
    [ i \in DOMAIN modu |->
        IF i \div MOD_OSC_COUNT = voice_idx
        THEN [ modu[i] EXCEPT !.phase = 0 ] ELSE modu[i] ]

\* step_simd, first loop (osc.rs:474-525): phase step of the voice's
\* modulators, each from its own accumulated modulation, which is then reset
StepModulators(modu, voice, base_frequency, mod_ty) ==
    LET base == IF mod_ty = "Absolute" THEN ABS_BASE_FREQ ELSE base_frequency
    IN [ i \in DOMAIN modu |->
           IF i \div MOD_OSC_COUNT = voice
           THEN [ modu[i] EXCEPT
                    !.phase = phase_step(freq(modu[i].osc, base),
                                         freq_multiplier(modu[i]),
                                         modu[i].phase),
                    !.mod_counter = 0,
                    !.mod_multiplier = 0 ]
           ELSE modu[i] ]

\* step_simd, second loop (osc.rs:531-574), from modulator slot s on: each
\* modulator that is on adds its modulation sample to its parent.  Indexing
\* past the end of an array panics; b.panic records it.
RECURSIVE WriteParents(_, _, _)
WriteParents(b, voice, s) ==
    IF s >= MOD_OSC_COUNT \/ b.panic THEN b
    ELSE
      LET osc == b.m[modulator_osc_index(voice, s)]
          volume == IF osc.osc.is_on THEN osc.osc.range ELSE 0
          modulation_sample == 1 + simd_sample(osc.phase, osc.offset, volume)
          modid == osc.osc.parent_osc_slot.index
      IN
      IF ~osc.osc.is_on THEN WriteParents(b, voice, s + 1)
      ELSE IF osc.osc.parent_osc_slot.kind = "Modulator"
      THEN LET idx == modulator_osc_index(voice, modid) IN
           IF idx >= MODULATOR_BANK_SIZE
           THEN [ b EXCEPT !.panic = TRUE ]
           ELSE WriteParents(
                  [ b EXCEPT !.m[idx].mod_multiplier = @ + modulation_sample,
                             !.m[idx].mod_counter = @ + 1 ],
                  voice, s + 1)
      ELSE LET idx == primary_osc_index(voice, modid) IN
           IF idx >= PRIMARY_BANK_SIZE
           THEN [ b EXCEPT !.panic = TRUE ]
           ELSE WriteParents(
                  [ b EXCEPT !.p[idx].mod_multiplier = @ + modulation_sample,
                             !.p[idx].mod_counter = @ + 1 ],
                  voice, s + 1)

\* step_simd, third loop (osc.rs:578-624), new phase of one primary
PrimaryResult(prim, voice, slot, base_frequency) ==
    LET osc == prim[primary_osc_index(voice, slot)]
    IN phase_step(freq(osc.osc, base_frequency), freq_multiplier(osc),
                  osc.phase)

\* step_simd, third loop: what one lane adds to accum, times AccScale
LaneAccum(prim, voice, lane_index, base_frequency) ==
    LET slots == { lane_index * LANE + i : i \in 0 .. (LANE - 1) }
        on == { sl \in slots : prim[primary_osc_index(voice, sl)].osc.is_on }
        count == Cardinality(on)
        sample ==
          [ sl \in slots |->
              LET osc == prim[primary_osc_index(voice, sl)]
              IN simd_sample(PrimaryResult(prim, voice, sl, base_frequency),
                             osc.offset,
                             IF osc.osc.is_on THEN osc.osc.volume ELSE 0) ]
    IN IF count > 0
       THEN SumOver(slots, sample) * (AccScale \div count)
       ELSE 0

\* step_simd, third loop: the primaries written back
StepPrimaries(prim, voice, base_frequency) ==
    [ i \in DOMAIN prim |->
        IF i \div PRIMARY_OSC_COUNT = voice
        THEN [ prim[i] EXCEPT
                 !.phase = PrimaryResult(prim, voice, i % PRIMARY_OSC_COUNT,
                                         base_frequency),
                 !.mod_counter = 0,
                 !.mod_multiplier = 1 ]
        ELSE prim[i] ]

\* The value of a singleton set: used to evaluate an intermediate result once.
The(S) == CHOOSE r \in S : TRUE

\* step_simd, after the second loop: the third loop and the value returned
step_primaries(b, voice, base_frequency) ==
    LET lanes == 0 .. ((PRIMARY_OSC_COUNT \div LANE) - 1)
        accum == SumOver(lanes,
                   [ l \in lanes |-> LaneAccum(b.p, voice, l, base_frequency) ])
    IN IF b.panic
       THEN [ p |-> b.p, m |-> b.m, panic |-> TRUE, accum |-> 0 ]
       ELSE [ p |-> StepPrimaries(b.p, voice, base_frequency), m |-> b.m,
              panic |-> FALSE, accum |-> accum ]

\* OscillatorBank::step_simd: the bank after the step and the value returned
step_simd(prim, modu, mod_ty, voice, base_frequency) ==
    The({ step_primaries(b, voice, base_frequency) :
            b \in { WriteParents(
                      [ p |-> prim,
                        m |-> StepModulators(modu, voice, base_frequency,
                                             mod_ty),
                        panic |-> FALSE ],
                      voice, 0) } })

\* OscillatorBank::process, the voices of one sample from voice vidx on
RECURSIVE StepVoices(_, _, _, _)
StepVoices(b, vs, mod_ty, vidx) ==
    IF vidx >= VOICE_COUNT \/ b.panic THEN b
    ELSE IF is_off(vs[vidx]) THEN StepVoices(b, vs, mod_ty, vidx + 1)
    ELSE The({ StepVoices(n, vs, mod_ty, vidx + 1) :
                 n \in { step_simd(b.p, b.m, mod_ty, vidx, vs[vidx].freq) } })

\* OscillatorBank::process: the loop over the buffer's samples.  The values
\* written to the buffer are not part of the state.
RECURSIVE bank_process(_, _, _, _)
bank_process(b, vs, mod_ty, samples) ==
    IF samples = 0 \/ b.panic THEN b
    ELSE The({ bank_process(n, vs, mod_ty, samples - 1) :
                 n \in { StepVoices(b, vs, mod_ty, 0) } })

----------------------------------------------------------------------------
(* com.rs, renderer/solar_system.rs: what travels over the control channel *)

\* PrimaryState, ModulatorState of com.rs
PrimaryState(slot, speed_index, volume, offset) ==
    [ offset |-> offset, slot |-> slot,
      state |-> [ speed_index |-> speed_index, volume |-> volume,
                  is_on |-> TRUE ] ]
ModulatorState(slot, parent, range, speed_index, offset) ==
    [ offset |-> offset, slot |-> slot,
      state |-> [ parent_osc_slot |-> parent, is_on |-> TRUE,
                  range |-> range, speed_index |-> speed_index ] ]

\* SolarSystem::new().get_solar_state(): one primary orbital on slot 0
DefaultSolarState ==
    [ primary_states |-> << PrimaryState(0, 0, 1, 0) >>,
      modulator_states |-> << >> ]

\* A second topology the editor can build: two planets, the first with a moon
\* (build_solar_state: a child's parent is its parent orbital's slot).
MoonSolarState ==
    [ primary_states |-> << PrimaryState(0, 0, 1, 0), PrimaryState(1, 1, 2, 1) >>,
      modulator_states |-> << ModulatorState(0, Primary(0), 1, 0, 0) >> ]

\* The snapshots SolarSystem::get_solar_state returns in the model.
Snapshots == { DefaultSolarState, MoonSolarState }

\* ComMsg: the variant, and its payload in the field of its type (the other
\* payload field is unused and holds a fixed value)
NoSolarState == [ primary_states |-> << >>, modulator_states |-> << >> ]
StateChange(s) ==
    [ kind |-> "StateChange", state |-> s, value |-> "-", flag |-> FALSE ]
ModRelationChanged(new) ==
    [ kind |-> "ModRelationChanged", state |-> NoSolarState, value |-> new,
      flag |-> FALSE ]
GainChange(new) ==
    [ kind |-> "GainChange", state |-> NoSolarState, value |-> new,
      flag |-> FALSE ]
ResetPhaseChanged(b) ==
    [ kind |-> "ResetPhaseChanged", state |-> NoSolarState, value |-> "-",
      flag |-> b ]

\* The values of the host's envelope parameters in the model, lib.rs:117-136
\* (each within its FloatRange): release 1 tick and release 0.
AdsrSet ==
    { [ delay |-> 0, attack |-> 1, hold |-> 0, decay |-> 1,
        sustain_level |-> 8, release |-> r ] : r \in { 0, 1 } }

\* OrbitalParams::default, lib.rs:106-139, with the FloatParams' defaults
\* brought to the nearest tick
DefaultAdsr ==
    [ delay |-> 0, attack |-> 1, hold |-> 0, decay |-> 1,
      sustain_level |-> 8, release |-> 1 ]

\* The notes the host plays in the model: 27.5 Hz and 55 Hz.
Notes == { 21, 33 }

\* The notes of the host's NoteOff events: those, and note 0, the note field
\* of a voice that is Off.
OffNotes == Notes \cup { 0 }

\* OscArray, as cloned into params.synth by deactivate
OscArrayOf(vs, prim, modu, st) ==
    [ voices |-> vs, primary_osc |-> prim, modulator_osc |-> modu,
      settings |-> st ]

\* OscArray::default
DefaultOscArray ==
    OscArrayOf([ i \in Voices |-> DefaultVoice ], DefaultPrimaryBank,
               DefaultModulatorBank, DefaultSettings)

\* The locals of a process call that has not started.
IdleCall ==
    [ samples |-> 0, try |-> 0, received |-> 0, logs |-> 0, timing |-> 0,
      last |-> "none" ]

----------------------------------------------------------------------------
(* lib.rs: the plugin *)

\* Orbital::default and OrbitalParams::default
Init ==
    /\ voices = [ i \in Voices |-> DefaultVoice ]
    /\ primary_osc = DefaultPrimaryBank
    /\ modulator_osc = DefaultModulatorBank
    /\ settings = DefaultSettings
    /\ transport_time = 0
    /\ params = [ adsr |-> DefaultAdsr, reset_phase |-> TRUE,
                  mod_ty |-> "Relative", gain_ty |-> "Sigmoid",
                  synth |-> DefaultOscArray,
                  solar_system |-> DefaultSolarState ]
    /\ chan = << >>
    /\ connected = TRUE
    /\ ui_locks = [ mod_ty |-> FALSE, gain_ty |-> FALSE,
                    solar_system |-> FALSE, synth |-> FALSE ]
    /\ active = FALSE
    /\ pc = "idle"
    /\ call = IdleCall
    /\ hist = [ sent |-> << >>, applied |-> << >>, logs |-> 0 ]
    /\ out = 0
    /\ panicked = FALSE

\* Orbital::get_adsr_settings
get_adsr_settings == params.adsr

\* Orbital::initialize.  solar_system is read with try_read, mod_ty with a
\* blocking lock.
Initialize ==
    /\ ~active /\ pc = "idle" /\ ~panicked
    /\ ~ui_locks.mod_ty
    /\ LET new == IF ui_locks.solar_system THEN DefaultSolarState
                  ELSE params.solar_system
       IN /\ primary_osc' = on_state_change_primary(primary_osc, new)
          /\ modulator_osc' = on_state_change_modulator(modulator_osc, new)
    /\ voices' = set_envelopes(voices, get_adsr_settings)
    /\ settings' = [ settings EXCEPT !.mod_ty = params.mod_ty ]
    /\ active' = TRUE
    /\ UNCHANGED << transport_time, params, chan, connected, ui_locks, pc,
                    call, hist, out, panicked >>

\* Orbital::deactivate.  params.synth is taken with a blocking lock.
Deactivate ==
    /\ active /\ pc = "idle" /\ ~panicked
    /\ ~ui_locks.synth
    /\ transport_time' = 0
    /\ params' = [ params EXCEPT
                     !.synth = OscArrayOf(voices, primary_osc, modulator_osc,
                                          settings) ]
    /\ active' = FALSE
    /\ UNCHANGED << voices, primary_osc, modulator_osc, settings, chan,
                    connected, ui_locks, pc, call, hist, out, panicked >>

\* The host automates the envelope parameters and reset_phase
\* (lib.rs:67-68, 79-90): a new value of one of them.  The audio thread
\* reads them in initialize and at lib.rs:275-276 only, so a change inside
\* a process call is a change before or after it.
HostSetParam(name, value) ==
    /\ pc = "idle"
    /\ params[name] # value
    /\ params' = [ params EXCEPT ![name] = value ]
    /\ UNCHANGED << voices, primary_osc, modulator_osc, settings,
                    transport_time, chan, connected, ui_locks, active, pc,
                    call, hist, out, panicked >>

\* The host restores a saved state before it activates the plugin: one of
\* the #[persist] fields of the params (lib.rs:70-77) gets its saved value.
HostLoadState(name, value) ==
    /\ ~active
    /\ HostSetParam(name, value)

\* Orbital::process, entry (lib.rs:226-239): the host hands over a buffer of
\* n samples.
ProcessBegin(n) ==
    /\ active /\ pc = "idle" /\ ~panicked
    /\ transport_time <= MaxTime
    /\ call' = [ IdleCall EXCEPT !.samples = n ]
    /\ pc' = "drain"
    /\ UNCHANGED << voices, primary_osc, modulator_osc, settings,
                    transport_time, params, chan, connected, ui_locks, active,
                    hist, out, panicked >>

\* Mutex::try_lock on one of the params' locks: Ok unless the UI holds it.
try_lock(l) == ~ui_locks[l]

\* lib.rs:245-259: the arms of `match msg`, as the new (bank, settings,
\* params).  The match has no arm for ComMsg::ResetPhaseChanged (com.rs:64):
\* no statement of process assigns anything from that message.
Handle(msg) ==
    CASE msg.kind = "StateChange" ->
           [ p |-> on_state_change_primary(primary_osc, msg.state),
             m |-> on_state_change_modulator(modulator_osc, msg.state),
             settings |-> settings, params |-> params ]
      [] msg.kind = "ModRelationChanged" ->
           [ p |-> primary_osc, m |-> modulator_osc,
             settings |-> [ settings EXCEPT !.mod_ty = msg.value ],
             params |-> IF try_lock("mod_ty")
                        THEN [ params EXCEPT !.mod_ty = msg.value ]
                        ELSE params ]
      [] msg.kind = "GainChange" ->
           [ p |-> primary_osc, m |-> modulator_osc,
             settings |-> [ settings EXCEPT !.gain_ty = msg.value ],
             params |-> IF try_lock("gain_ty")
                        THEN [ params EXCEPT !.gain_ty = msg.value ]
                        ELSE params ]
      [] msg.kind = "ResetPhaseChanged" ->
           [ p |-> primary_osc, m |-> modulator_osc,
             settings |-> settings, params |-> params ]

try_recv_lifo ==
    IF chan # << >>
    THEN [ res |-> "Ok", msg |-> chan[Len(chan)],
           rest |-> SubSeq(chan, 1, Len(chan) - 1) ]
    ELSE IF ~connected THEN [ res |-> "Disconnected" ]
    ELSE [ res |-> "Empty" ]

\* Receiver::try_recv of crossbeam's unbounded channel: the oldest message
\* and the queue without it, else Disconnected when no Sender is left, else
\* Empty.
try_recv ==
    IF chan # << >>
    THEN [ res |-> "Ok", msg |-> Head(chan), rest |-> Tail(chan) ]
    ELSE IF ~connected THEN [ res |-> "Disconnected" ]
    ELSE [ res |-> "Empty" ]

LoopGoesOn_forever(try) == TRUE

\* The for loop of lib.rs:243 goes on after iteration number try.
LoopGoesOn(try) == try + 1 < DRAIN_TRIES

\* Orbital::process, one iteration of `for _try in 0..10` (lib.rs:243-269)
DrainStep ==
    /\ pc = "drain"
    /\ LET r == try_recv
           next == IF LoopGoesOn(call.try) THEN "drain" ELSE "refresh"
       IN
       IF r.res = "Ok" THEN
          LET h == Handle(r.msg) IN
          /\ chan' = r.rest
          /\ primary_osc' = h.p
          /\ modulator_osc' = h.m
          /\ settings' = h.settings
          /\ params' = h.params
          /\ hist' = [ hist EXCEPT !.applied = Append(@, r.msg) ]
          /\ call' = [ call EXCEPT !.try = @ + 1, !.received = @ + 1 ]
          /\ pc' = next
       ELSE IF r.res = "Disconnected" THEN
          \* nih_log!, and the loop goes on
          /\ call' = [ call EXCEPT !.try = @ + 1, !.logs = @ + 1 ]
          /\ hist' = [ hist EXCEPT !.logs = @ + 1 ]
          /\ pc' = next
          /\ UNCHANGED << chan, primary_osc, modulator_osc, settings, params >>
       ELSE
          \* Empty: break
          /\ pc' = "refresh"
          /\ UNCHANGED << chan, primary_osc, modulator_osc, settings, params,
                          hist, call >>
    /\ UNCHANGED << voices, transport_time, connected, ui_locks, active, out,
                    panicked >>

\* Orbital::process, lib.rs:275-276: the envelope parameters and reset_phase
\* are overwritten from the host's parameters
Refresh ==
    /\ pc = "refresh"
    /\ voices' = set_envelopes(voices, get_adsr_settings)
    /\ settings' = [ settings EXCEPT !.reset_phase = params.reset_phase ]
    /\ pc' = "events"
    /\ UNCHANGED << primary_osc, modulator_osc, transport_time, params, chan,
                    connected, ui_locks, active, call, hist, out, panicked >>

\* The sample offsets the next event of this block can carry: not before the
\* previous event's, and inside the buffer.
Timings == { t \in 0 .. (call.samples - 1) : t >= call.timing }

\* OscArray::note_on, the bank: reset_voice if a voice was taken and
\* reset_phase is set
note_on_primary(vs, prim, reset_phase) ==
    IF FirstOff(vs) < VOICE_COUNT /\ reset_phase
    THEN reset_voice_primary(prim, FirstOff(vs)) ELSE prim
note_on_modulator(vs, modu, reset_phase) ==
    IF FirstOff(vs) < VOICE_COUNT /\ reset_phase
    THEN reset_voice_modulator(modu, FirstOff(vs)) ELSE modu

NoteOn_reclaim_first(note, timing) ==
    /\ pc = "events"
    /\ LET at == transport_time + timing
           vs == reclaim(voices, transport_time)
       IN
       /\ voices' = note_on_voices(vs, note, at)
       /\ primary_osc' = note_on_primary(vs, primary_osc,
                                         settings.reset_phase)
       /\ modulator_osc' = note_on_modulator(vs, modulator_osc,
                                             settings.reset_phase)
       /\ call' = [ call EXCEPT
                      !.timing = timing,
                      !.last = IF FirstOff(vs) < VOICE_COUNT
                               THEN "note_on" ELSE "dropped" ]
    /\ UNCHANGED << settings, transport_time, params, chan, connected,
                    ui_locks, active, pc, hist, out, panicked >>

\* Orbital::process, lib.rs:280-282: a NoteOn event of this block
NoteOn(note, timing) ==
    /\ pc = "events"
    /\ LET at == transport_time + timing IN
       /\ voices' = note_on_voices(voices, note, at)
       /\ primary_osc' = note_on_primary(voices, primary_osc,
                                         settings.reset_phase)
       /\ modulator_osc' = note_on_modulator(voices, modulator_osc,
                                             settings.reset_phase)
    /\ call' = [ call EXCEPT
                   !.timing = timing,
                   !.last = IF FirstOff(voices) < VOICE_COUNT
                            THEN "note_on" ELSE "dropped" ]
    /\ UNCHANGED << settings, transport_time, params, chan, connected,
                    ui_locks, active, pc, hist, out, panicked >>

\* Orbital::process, lib.rs:283-285: a NoteOff event of this block
NoteOff(note, timing) ==
    /\ pc = "events"
    /\ voices' = note_off(voices, note, transport_time + timing)
    /\ call' = [ call EXCEPT !.timing = timing, !.last = "note_off" ]
    /\ UNCHANGED << primary_osc, modulator_osc, settings, transport_time,
                    params, chan, connected, ui_locks, active, pc, hist, out,
                    panicked >>

\* What lib.rs:293 adds to transport_time: buffer_length, in ticks.
buffer_length == call.samples

\* Orbital::process, lib.rs:290-295: no event is left; OscArray::process
\* reclaims the elapsed voices and the bank fills the buffer; the time base
\* advances and the call returns ProcessStatus::Normal.
SynthProcess ==
    /\ pc = "events"
    /\ \E vs \in { reclaim(voices, transport_time) } :
       \E b \in { bank_process([ p |-> primary_osc, m |-> modulator_osc,
                               panic |-> FALSE, accum |-> out ],
                             vs, settings.mod_ty, call.samples) } :
          /\ voices' = vs
          /\ primary_osc' = b.p
          /\ modulator_osc' = b.m
          /\ out' = b.accum
          /\ panicked' = b.panic
          /\ transport_time' =
                IF b.panic THEN transport_time
                ELSE transport_time + buffer_length
    /\ pc' = "idle"
    /\ UNCHANGED << settings, params, chan, connected, ui_locks, active, call,
                    hist >>

----------------------------------------------------------------------------
(* The UI thread *)

\* SolarSystem::handle_response, solar_system.rs:275-278: the editor changed
\* the topology and sends the new snapshot.
UiSendState(s) ==
    /\ Len(hist.sent) < MaxSent
    /\ connected
    /\ ~ui_locks.solar_system
    /\ params' = [ params EXCEPT !.solar_system = s ]
    /\ chan' = Append(chan, StateChange(s))
    /\ hist' = [ hist EXCEPT !.sent = Append(@, StateChange(s)) ]
    /\ UNCHANGED << voices, primary_osc, modulator_osc, settings,
                    transport_time, connected, ui_locks, active, pc, call,
                    out, panicked >>

\* The editor's modulation-type and gain switches send the new value.
UiSendSetting(msg) ==
    /\ Len(hist.sent) < MaxSent
    /\ connected
    /\ chan' = Append(chan, msg)
    /\ hist' = [ hist EXCEPT !.sent = Append(@, msg) ]
    /\ UNCHANGED << voices, primary_osc, modulator_osc, settings,
                    transport_time, params, connected, ui_locks, active, pc,
                    call, out, panicked >>

\* The UI thread takes or gives back one of the params' locks.
UiLock(l) ==
    /\ ~ui_locks[l]
    /\ ui_locks' = [ ui_locks EXCEPT ![l] = TRUE ]
    /\ UNCHANGED << voices, primary_osc, modulator_osc, settings,
                    transport_time, params, chan, connected, active, pc, call,
                    hist, out, panicked >>
UiUnlock(l) ==
    /\ ui_locks[l]
    /\ ui_locks' = [ ui_locks EXCEPT ![l] = FALSE ]
    /\ UNCHANGED << voices, primary_osc, modulator_osc, settings,
                    transport_time, params, chan, connected, active, pc, call,
                    hist, out, panicked >>

----------------------------------------------------------------------------
(* Specifications *)

\* The plugin as the host drives it: lifecycle, parameter automation and
\* blocks with note events.  The editor is closed: nothing is sent.
Next ==
    \/ Initialize
    \/ \E a \in AdsrSet : HostSetParam("adsr", a)
    \/ \E n \in BlockSizes : ProcessBegin(n)
    \/ DrainStep
    \/ Refresh
    \/ \E note \in Notes, t \in Timings : NoteOn(note, t)
    \/ \E note \in OffNotes, t \in Timings : NoteOff(note, t)
    \/ SynthProcess

Spec == Init /\ [][Next]_vars

\* The switches of the editor, as the messages they send.
SettingMsgs == { ModRelationChanged("Absolute"), GainChange("Linear") }

\* The locks of the params the editor takes while the audio thread runs.
ParamLocks == { "mod_ty", "gain_ty" }

\* The plugin with its editor open: the UI thread sends snapshots and
\* settings and takes the params' locks, at any moment of the audio thread's
\* process calls.  The host plays no notes and asks for blocks of one
\* sample.
NextCom ==
    \/ Initialize
    \/ \E s \in Snapshots : UiSendState(s)
    \/ \E msg \in SettingMsgs : UiSendSetting(msg)
    \/ \E l \in ParamLocks : UiLock(l)
    \/ \E l \in ParamLocks : UiUnlock(l)
    \/ \E n \in { 1 } : ProcessBegin(n)
    \/ DrainStep
    \/ Refresh
    \/ SynthProcess

SpecCom == Init /\ [][NextCom]_vars

\* A step of the audio thread inside a process call.
AudioStep == DrainStep \/ Refresh \/ SynthProcess

\* The same, where the audio thread, once the host has called process, is
\* scheduled: nothing is assumed of the UI thread.
SpecComFair == Init /\ [][NextCom]_vars /\ WF_vars(AudioStep)

\* The last Sender of the control channel is dropped: from now on try_recv
\* on the empty queue returns Disconnected.  (Orbital keeps a Sender of its
\* own in com_channel.0, lib.rs:35: the step stands for every holder of a
\* Sender being gone.)
DropSenders ==
    /\ connected
    /\ connected' = FALSE
    /\ UNCHANGED << voices, primary_osc, modulator_osc, settings,
                    transport_time, params, chan, ui_locks, active, pc, call,
                    hist, out, panicked >>

\* The plugin whose editor sends snapshots and then goes away with every
\* Sender.
NextDrain ==
    \/ Initialize
    \/ \E s \in Snapshots : UiSendState(s)
    \/ DropSenders
    \/ \E n \in { 1 } : ProcessBegin(n)
    \/ DrainStep
    \/ Refresh
    \/ SynthProcess

SpecDrain == Init /\ [][NextDrain]_vars

\* The note the host plays across activations.
LifeNotes == { 21 }

\* The plugin over several activations: the host initializes, plays blocks
\* with note events, deactivates and initializes again.
NextLife ==
    \/ Initialize
    \/ Deactivate
    \/ \E n \in BlockSizes : ProcessBegin(n)
    \/ DrainStep
    \/ Refresh
    \/ \E note \in LifeNotes, t \in Timings : NoteOn(note, t)
    \/ \E note \in LifeNotes, t \in Timings : NoteOff(note, t)
    \/ SynthProcess

SpecLife == Init /\ [][NextLife]_vars

\* The same, where the audio thread, once the host has called process, is
\* scheduled until the call returns.
SpecLifeFair == Init /\ [][NextLife]_vars /\ WF_vars(AudioStep)

\* The values a saved state holds for the persisted fields.
SavedStates ==
    [ mod_ty : { "Relative", "Absolute" }, gain_ty : { "Sigmoid", "Linear" },
      solar_system : Snapshots ]

\* The plugin as the host restores and activates it: saved values are
\* loaded into the params, the envelope parameters are automated, the
\* plugin is initialized, processes blocks of one sample and is deactivated.
NextPersist ==
    \/ \E name \in { "mod_ty", "gain_ty", "solar_system" } :
          \E saved \in SavedStates : HostLoadState(name, saved[name])
    \/ \E a \in AdsrSet : HostSetParam("adsr", a)
    \/ Initialize
    \/ Deactivate
    \/ \E n \in { 1 } : ProcessBegin(n)
    \/ DrainStep
    \/ Refresh
    \/ SynthProcess

SpecPersist == Init /\ [][NextPersist]_vars

\* All the locks of the params another thread can hold.
AllLocks == { "mod_ty", "gain_ty", "solar_system", "synth" }

\* The plugin while other threads (the editor, the host saving the state)
\* take and give back the locks of the params at any moment.
NextLock ==
    \/ \E l \in AllLocks : UiLock(l)
    \/ \E l \in AllLocks : UiUnlock(l)
    \/ \E msg \in SettingMsgs : UiSendSetting(msg)
    \/ Initialize
    \/ Deactivate
    \/ \E n \in { 1 } : ProcessBegin(n)
    \/ DrainStep
    \/ Refresh
    \/ SynthProcess

SpecLock == Init /\ [][NextLock]_vars

\* Every kind of ComMsg (com.rs:60-65) that carries a setting.
AllSettingMsgs ==
    SettingMsgs \cup { ResetPhaseChanged(FALSE), ResetPhaseChanged(TRUE) }

\* The plugin with its editor open, where the editor sends every kind of
\* message and the host moves its reset_phase parameter between process
\* calls.  The host plays no notes and asks for blocks of one sample.
NextMsg ==
    \/ Initialize
    \/ \E s \in Snapshots : UiSendState(s)
    \/ \E msg \in AllSettingMsgs : UiSendSetting(msg)
    \/ \E b \in BOOLEAN : HostSetParam("reset_phase", b)
    \/ \E n \in { 1 } : ProcessBegin(n)
    \/ DrainStep
    \/ Refresh
    \/ SynthProcess

SpecMsg == Init /\ [][NextMsg]_vars

----------------------------------------------------------------------------
(* One envelope on its own *)

\* The EnvelopeParams of the envelope-only specification: every stage from
\* no time at all to MaxDur ticks (delay and hold, which only wait, at the
\* two ends), sustain at 0.5 or 0.8.
EnvParamSet ==
    [ delay : { 0, MaxDur }, attack : 0 .. MaxDur, hold : { 0, MaxDur },
      decay : 0 .. MaxDur, sustain_level : { 5, 8 }, release : 0 .. MaxDur ]

\* The times of the envelope-only specification: up to the end of the
\* longest envelope pressed last.
EnvTimes == 0 .. (MaxPress + 5 * MaxDur)

\* The envelope of voice 0 has parameters of EnvParamSet and no event yet.
InitEnv ==
    /\ \E ps \in EnvParamSet :
          voices = [ i \in Voices |->
                       IF i = 0
                       THEN [ DefaultVoice EXCEPT !.env.parameters = ps ]
                       ELSE DefaultVoice ]
    /\ primary_osc = DefaultPrimaryBank
    /\ modulator_osc = DefaultModulatorBank
    /\ settings = DefaultSettings
    /\ transport_time = 0
    /\ params = [ adsr |-> DefaultAdsr, reset_phase |-> TRUE,
                  mod_ty |-> "Relative", gain_ty |-> "Sigmoid",
                  synth |-> DefaultOscArray,
                  solar_system |-> DefaultSolarState ]
    /\ chan = << >>
    /\ connected = TRUE
    /\ ui_locks = [ mod_ty |-> FALSE, gain_ty |-> FALSE,
                    solar_system |-> FALSE, synth |-> FALSE ]
    /\ active = TRUE
    /\ pc = "env"
    /\ call = [ at |-> None, value |-> F32(0) ]
    /\ hist = [ sent |-> << >>, applied |-> << >>, logs |-> 0 ]
    /\ out = 0
    /\ panicked = FALSE

\* Envelope::on_press(at) on the envelope of voice 0
EnvPress(at) ==
    /\ pc = "env"
    /\ voices' = [ voices EXCEPT ![0].env = on_press(@, at) ]
    /\ call' = [ at |-> None, value |-> F32(0) ]
    /\ UNCHANGED << primary_osc, modulator_osc, settings, transport_time,
                    params, chan, connected, ui_locks, active, pc, hist, out,
                    panicked >>

\* Envelope::on_release(at) on the envelope of voice 0, once pressed (every
\* caller releases voices that are not Off)
EnvRelease(at) ==
    /\ pc = "env"
    /\ voices[0].env.press # None
    /\ voices' = [ voices EXCEPT ![0].env = on_release(@, at) ]
    /\ call' = [ at |-> None, value |-> F32(0) ]
    /\ UNCHANGED << primary_osc, modulator_osc, settings, transport_time,
                    params, chan, connected, ui_locks, active, pc, hist, out,
                    panicked >>

\* Envelope::sample(at) on the envelope of voice 0; call holds the argument
\* and the value returned.  sample takes &self and changes nothing of the
\* envelope: a behaviour ends with the one sample it takes.
EnvSample(at) ==
    /\ pc = "env"
    /\ call' = [ at |-> at, value |-> envelope_sample(voices[0].env, at) ]
    /\ pc' = "sampled"
    /\ UNCHANGED << voices, primary_osc, modulator_osc, settings,
                    transport_time, params, chan, connected, ui_locks, active,
                    hist, out, panicked >>

NextEnv ==
    \/ \E at \in 0 .. MaxPress : EnvPress(at)
    \/ \E at \in EnvTimes : EnvRelease(at)
    \/ \E at \in EnvTimes : EnvSample(at)

SpecEnv == InitEnv /\ [][NextEnv]_vars

\* The host has restored a saved state with the moon topology and set the
\* Release parameter to 0; the plugin is not yet initialized.
InitPhase ==
    /\ voices = [ i \in Voices |-> DefaultVoice ]
    /\ primary_osc = DefaultPrimaryBank
    /\ modulator_osc = DefaultModulatorBank
    /\ settings = DefaultSettings
    /\ transport_time = 0
    /\ params = [ adsr |-> [ DefaultAdsr EXCEPT !.release = 0 ],
                  reset_phase |-> TRUE,
                  mod_ty |-> "Relative", gain_ty |-> "Sigmoid",
                  synth |-> DefaultOscArray,
                  solar_system |-> MoonSolarState ]
    /\ chan = << >>
    /\ connected = TRUE
    /\ ui_locks = [ mod_ty |-> FALSE, gain_ty |-> FALSE,
                    solar_system |-> FALSE, synth |-> FALSE ]
    /\ active = FALSE
    /\ pc = "idle"
    /\ call = IdleCall
    /\ hist = [ sent |-> << >>, applied |-> << >>, logs |-> 0 ]
    /\ out = 0
    /\ panicked = FALSE

\* The plugin over several activations, where the host automates
\* reset_phase and plays one note in blocks of one sample.
NextPhase ==
    \/ \E b \in BOOLEAN : HostSetParam("reset_phase", b)
    \/ Initialize
    \/ Deactivate
    \/ \E n \in { 1 } : ProcessBegin(n)
    \/ DrainStep
    \/ Refresh
    \/ \E note \in LifeNotes, t \in Timings : NoteOn(note, t)
    \/ \E note \in LifeNotes, t \in Timings : NoteOff(note, t)
    \/ SynthProcess

SpecPhase == InitPhase /\ [][NextPhase]_vars

\* The plugin as the host drives it while the editor sends snapshots.
NextOrder ==
    \/ Initialize
    \/ \E a \in AdsrSet : HostSetParam("adsr", a)
    \/ \E s \in Snapshots : UiSendState(s)
    \/ \E n \in BlockSizes : ProcessBegin(n)
    \/ DrainStep
    \/ Refresh
    \/ \E note \in LifeNotes, t \in Timings : NoteOn(note, t)
    \/ \E note \in LifeNotes, t \in Timings : NoteOff(note, t)
    \/ SynthProcess

SpecOrder == Init /\ [][NextOrder]_vars

----------------------------------------------------------------------------
(* The oscillator bank on its own *)

\* The elements of a set of slots in ascending order.
SlotsInOrder(S) ==
    [ i \in 1 .. Cardinality(S) |->
        CHOOSE x \in S : Cardinality({ y \in S : y < x }) = i - 1 ]

\* A snapshot with primaries on the slots S and no modulator; the volumes
\* alternate between 1 and 2.
PrimaryTopology(S) ==
    [ primary_states |->
        [ i \in 1 .. Cardinality(S) |->
            PrimaryState(SlotsInOrder(S)[i], 0, 1 + (SlotsInOrder(S)[i] % 2),
                         0) ],
      modulator_states |-> << >> ]

\* A snapshot with one primary on slot 0 and one modulator on slot 0, whose
\* parent is given: com.rs declares parent_osc_slot a ParentIndex over
\* usize, and on_state_change stores it unchecked.
ModulatorTopology(parent) ==
    [ primary_states |-> << PrimaryState(0, 0, 1, 0) >>,
      modulator_states |-> << ModulatorState(0, parent, 1, 0, 0) >> ]

\* The parents of that modulator: in range, and the first index out of range
\* of each kind.
ParentSlots ==
    { Primary(0), Primary(PRIMARY_OSC_COUNT),
      Modulator(1), Modulator(MOD_OSC_COUNT) }

\* A snapshot with one primary on slot 0 and one modulator on slot 0 whose
\* range is 3.0: ModulatorState carries range as an f32 (modulator.rs:19)
\* and on_state_change stores it unchecked.
WideRangeTopology ==
    [ primary_states |-> << PrimaryState(0, 0, 1, 0) >>,
      modulator_states |-> << ModulatorState(0, Primary(0), 3, 0, 0) >> ]

BankTopologies ==
    { PrimaryTopology(S) : S \in SUBSET (0 .. (PRIMARY_OSC_COUNT - 1)) }
      \cup { ModulatorTopology(p) : p \in ParentSlots }
      \cup { WideRangeTopology }

\* The bank holds one of the topologies, every voice is On, voice i an
\* octave above voice i - 1, and OscillatorBank::process is about to step.
InitBankWith(topologies) ==
    /\ \E topo \in topologies :
          /\ primary_osc = on_state_change_primary(DefaultPrimaryBank, topo)
          /\ modulator_osc =
                on_state_change_modulator(DefaultModulatorBank, topo)
          /\ params = [ adsr |-> DefaultAdsr, reset_phase |-> TRUE,
                        mod_ty |-> "Relative", gain_ty |-> "Sigmoid",
                        synth |-> DefaultOscArray, solar_system |-> topo ]
    /\ voices = [ i \in Voices |->
                   [ env |-> on_press(DefaultEnvelope, 0), state |-> "On",
                     note |-> 21 + 12 * i,
                     freq |-> midi_note_to_freq(21 + 12 * i) ] ]
    /\ settings = DefaultSettings
    /\ transport_time = 0
    /\ chan = << >>
    /\ connected = TRUE
    /\ ui_locks = [ mod_ty |-> FALSE, gain_ty |-> FALSE,
                    solar_system |-> FALSE, synth |-> FALSE ]
    /\ active = TRUE
    /\ pc = "bank"
    /\ call = IdleCall
    /\ hist = [ sent |-> << >>, applied |-> << >>, logs |-> 0 ]
    /\ out = 0
    /\ panicked = FALSE

\* One call of OscillatorBank::step_simd(voice, base_frequency, sample_delta)
\* from the loop of OscillatorBank::process (osc.rs:654-672); call.samples
\* counts the calls and call.timing holds the voice stepped.
StepSimd(voice) ==
    /\ pc = "bank" /\ ~panicked
    /\ call.samples < MaxSteps
    /\ \E b \in { step_simd(primary_osc, modulator_osc, settings.mod_ty,
                             voice, voices[voice].freq) } :
          /\ primary_osc' = b.p
          /\ modulator_osc' = b.m
          /\ out' = b.accum
          /\ panicked' = b.panic
    /\ call' = [ call EXCEPT !.samples = @ + 1, !.timing = voice,
                             !.last = "step" ]
    /\ UNCHANGED << voices, settings, transport_time, params, chan,
                    connected, ui_locks, active, pc, hist >>

InitBank == InitBankWith(BankTopologies)

NextBank == \E voice \in Voices : StepSimd(voice)

\* The snapshots on_state_change is called with: the two of the editor,
\* the empty one, one whose entries are on slots out of range next to a
\* valid one, one with an entry that is off, and one that lists slot 0
\* twice.
ReplaceSnapshots ==
    { DefaultSolarState, MoonSolarState, NoSolarState,
      [ primary_states |-> << PrimaryState(PRIMARY_OSC_COUNT, 1, 2, 1),
                              PrimaryState(1, 1, 2, 1) >>,
        modulator_states |-> << ModulatorState(MOD_OSC_COUNT, Primary(1),
                                               1, 1, 1) >> ],
      [ primary_states |->
          << [ PrimaryState(2, 0, 1, 0) EXCEPT !.state.is_on = FALSE ] >>,
        modulator_states |->
          << [ ModulatorState(1, Primary(2), 1, 0, 0)
                 EXCEPT !.state.is_on = FALSE ] >> ],
      [ primary_states |-> << PrimaryState(0, 0, 1, 0),
                              PrimaryState(0, 1, 2, 1) >>,
        modulator_states |-> << >> ] }

\* OscillatorBank::on_state_change(new) between two steps of the bank;
\* hist.applied holds the snapshot and call.received counts the calls.
OnStateChange(new) ==
    /\ pc = "bank" /\ ~panicked
    /\ call.received < MaxSteps
    /\ primary_osc' = on_state_change_primary(primary_osc, new)
    /\ modulator_osc' = on_state_change_modulator(modulator_osc, new)
    /\ hist' = [ hist EXCEPT !.applied = << StateChange(new) >> ]
    /\ call' = [ call EXCEPT !.last = "state_change", !.received = @ + 1 ]
    /\ UNCHANGED << voices, settings, transport_time, params, chan,
                    connected, ui_locks, active, pc, out, panicked >>

\* The bank stepped and given new snapshots in any order.
NextReplace ==
    \/ \E voice \in Voices : StepSimd(voice)
    \/ \E new \in ReplaceSnapshots : OnStateChange(new)

\* The topologies the bank holds before: primaries in both lanes, and the
\* editor's planet with a moon.
ReplaceStarts == { PrimaryTopology({ 0, 2, 5 }), MoonSolarState }

SpecReplace == InitBankWith(ReplaceStarts) /\ [][NextReplace]_vars

\* The topologies a restored state holds in SpecFrame: the editor's planet
\* with a moon, and a modulator whose parent is the first primary slot out
\* of range.
FrameSnapshots ==
    { MoonSolarState, ModulatorTopology(Primary(PRIMARY_OSC_COUNT)) }

\* The plugin restored with one of these topologies and playing one note in
\* blocks of one sample.
NextFrame ==
    \/ \E s \in FrameSnapshots : HostLoadState("solar_system", s)
    \/ Initialize
    \/ \E n \in { 1 } : ProcessBegin(n)
    \/ DrainStep
    \/ Refresh
    \/ \E note \in LifeNotes, t \in Timings : NoteOn(note, t)
    \/ \E note \in LifeNotes, t \in Timings : NoteOff(note, t)
    \/ SynthProcess

SpecFrame == Init /\ [][NextFrame]_vars

SpecBank == InitBank /\ [][NextBank]_vars

----------------------------------------------------------------------------
(* The voice allocator: C1 to C4, under Spec *)

NonOff(vs) == { i \in Voices : ~is_off(vs[i]) }

\* C1: note_on(note, at) takes the lowest-index voice whose state is Off and
\* sets it to state On with the given note, freq = midi_note_to_freq(note)
\* and envelope press = at, release cleared; every other voice is left as
\* it was.
C1_NoteOnTakesLowestOff ==
    [][ \A note \in Notes, t \in Timings :
          (NoteOn(note, t) /\ NonOff(voices) # Voices) =>
             \E k \in Voices :
                /\ is_off(voices[k])
                /\ \A j \in Voices : j < k => ~is_off(voices[j])
                /\ voices'[k].state = "On"
                /\ voices'[k].note = note
                /\ voices'[k].freq = midi_note_to_freq(note)
                /\ voices'[k].env.press = transport_time + t
                /\ voices'[k].env.release = None
                /\ voices'[k].env.parameters = voices[k].env.parameters
                /\ \A j \in Voices \ { k } : voices'[j] = voices[j]
      ]_vars

\* A note_on has just taken voice 1, voice 0 being in use.
C1_Witness ==
    /\ pc = "events" /\ call.last = "note_on"
    /\ voices[0].state = "Released"
    /\ voices[1].state = "On"
    /\ voices[1].env.press > voices[0].env.release

\* C2: every note_on raises the number of voices that are not Off by one, up
\* to VOICE_COUNT (so VOICE_COUNT + 1 of them from all Off leave exactly
\* VOICE_COUNT), and a note_on issued while no voice is Off changes no
\* voice, no envelope and no oscillator.
C2_NoStealing ==
    [][ \A note \in Notes, t \in Timings :
          NoteOn(note, t) =>
             /\ Cardinality(NonOff(voices')) =
                   Min(Cardinality(NonOff(voices)) + 1, VOICE_COUNT)
             /\ NonOff(voices) = Voices =>
                   /\ voices' = voices
                   /\ primary_osc' = primary_osc
                   /\ modulator_osc' = modulator_osc
      ]_vars

\* The last note_on of this block found no voice Off and was dropped.
C2_Witness ==
    /\ pc = "events" /\ call.last = "dropped"
    /\ NonOff(voices) = Voices
    /\ \A i \in Voices : voices[i].env.press = transport_time

\* C3: note_off(note, at) sets state Released and envelope release = at on
\* every voice whose note is `note` and whose state is not Off, all of them,
\* and leaves every Off voice and every voice with another note as it was.
C3_NoteOffReleasesAll ==
    [][ \A note \in OffNotes, t \in Timings :
          NoteOff(note, t) =>
             \A i \in Voices :
                IF voices[i].note = note /\ voices[i].state # "Off"
                THEN /\ voices'[i].state = "Released"
                     /\ voices'[i].env.release = transport_time + t
                     /\ voices'[i].env.press = voices[i].env.press
                     /\ voices'[i].env.parameters = voices[i].env.parameters
                     /\ voices'[i].note = voices[i].note
                     /\ voices'[i].freq = voices[i].freq
                ELSE voices'[i] = voices[i]
      ]_vars

\* A note_off has just released two voices holding the same note, while a
\* third case, an Off voice with the note field 0, is covered by note 0.
C3_Witness ==
    /\ pc = "events" /\ call.last = "note_off"
    /\ voices[0].state = "Released" /\ voices[1].state = "Released"
    /\ voices[0].note = voices[1].note
    /\ voices[0].env.release = voices[1].env.release
    /\ voices[0].env.release = transport_time + call.timing
    /\ call.timing > 0

\* C4: at the start of OscArray::process exactly the Released voices with
\* release + release duration < block start are reclaimed: they become Off
\* with note 0, freq 0 and press = release = None; voices that are On, and
\* Released voices whose release has not fully elapsed, stay as they are.
C4_ReclaimExactlyElapsed ==
    [][ (pc = "events" /\ pc' = "idle") =>
          \A i \in Voices :
             IF /\ voices[i].state = "Released"
                /\ voices[i].env.release + voices[i].env.parameters.release
                     < transport_time
             THEN /\ voices'[i].state = "Off"
                  /\ voices'[i].note = 0
                  /\ voices'[i].freq = 0
                  /\ voices'[i].env.press = None
                  /\ voices'[i].env.release = None
             ELSE voices'[i] = voices[i]
      ]_vars

\* A block has just been processed in which voice 0 was reclaimed while
\* voice 1, Released with its release ending exactly at the block start, was
\* not.
C4_Witness ==
    /\ pc = "idle"
    /\ voices[0].state = "Off"
    /\ voices[1].state = "Released"
    /\ voices[1].env.release + voices[1].env.parameters.release
         = transport_time - call.samples

----------------------------------------------------------------------------
(* The control channel: C5 under SpecCom, C6 under SpecComFair *)

\* C5: a process call removes at most DRAIN_TRIES (10 in the program)
\* messages from the control channel; the others stay queued for later
\* calls; the messages applied so far followed by the queued ones are the
\* messages sent, in the order sent: none is lost, applied twice or
\* reordered; and a drain iteration that finds the queue non-empty applies
\* its oldest message.
C5_DrainBoundedFifo ==
    /\ [](call.received <= DRAIN_TRIES /\ hist.applied \o chan = hist.sent)
    /\ [][ (pc = "drain" /\ call'.try # call.try /\ chan # << >>) =>
             /\ hist'.applied = Append(hist.applied, Head(chan))
             /\ chan' = Tail(chan)
             /\ call'.received = call.received + 1 ]_vars

\* A process call has removed DRAIN_TRIES messages and left the drain loop
\* with a message still queued.
C5_Witness ==
    /\ pc = "refresh"
    /\ call.received = DRAIN_TRIES
    /\ chan # << >>
    /\ Len(hist.applied) = DRAIN_TRIES

\* C6: every process call completes and returns Normal without waiting on
\* the UI thread: inside a call a step of the audio thread is always
\* possible, whatever locks the UI holds and whatever it has enqueued; the
\* drain loop takes at most DRAIN_TRIES iterations; no step panics; and the
\* call reaches its end.
C6_ProcessNeverWaits ==
    /\ [](pc # "idle" => ENABLED AudioStep)
    /\ [](call.try <= DRAIN_TRIES /\ ~panicked)
    /\ (pc # "idle") ~> (pc = "idle")

\* The drain loop is at its last iteration with a message queued while the
\* UI holds both locks.
C6_Witness ==
    /\ pc = "drain"
    /\ call.try = DRAIN_TRIES - 1
    /\ chan # << >>
    /\ ui_locks.mod_ty /\ ui_locks.gain_ty

----------------------------------------------------------------------------
(* The oscillator bank: C7 and C8 under SpecBank *)

\* The modulators of the bank that are on.
ModulatorsOn == { i \in DOMAIN modulator_osc : modulator_osc[i].osc.is_on }

\* Some modulator that is on has a parent out of range.
ParentOutOfRange ==
    \E i \in ModulatorsOn :
       LET parent == modulator_osc[i].osc.parent_osc_slot IN
       \/ parent.kind = "Primary" /\ parent.index >= PRIMARY_OSC_COUNT
       \/ parent.kind = "Modulator" /\ parent.index >= MOD_OSC_COUNT

\* C7: stepping a voice never panics and never changes an oscillator of
\* another voice, also when a modulator that is on has a parent_osc_slot
\* out of range: its contribution is skipped.
C7_OutOfRangeParentSkipped ==
    [][ \A voice \in Voices :
          StepSimd(voice) =>
             /\ ~panicked'
             /\ \A i \in DOMAIN primary_osc :
                   i \div PRIMARY_OSC_COUNT # voice =>
                      primary_osc'[i] = primary_osc[i]
             /\ \A i \in DOMAIN modulator_osc :
                   i \div MOD_OSC_COUNT # voice =>
                      modulator_osc'[i] = modulator_osc[i]
      ]_vars

\* A voice has been stepped while a modulator with a parent out of range
\* was on.
C7_Witness ==
    /\ pc = "bank" /\ call.last = "step"
    /\ ParentOutOfRange

\* The primary slots of the voice that are on.
PrimariesOn(voice) ==
    { sl \in 0 .. (PRIMARY_OSC_COUNT - 1) :
        primary_osc[primary_osc_index(voice, sl)].osc.is_on }

\* The largest volume of a set of primary slots (0 for the empty set).
MaxVolume(voice, S) ==
    IF S = {} THEN 0
    ELSE LET sl == CHOOSE x \in S :
                     \A y \in S :
                        primary_osc[primary_osc_index(voice, y)].osc.volume
                          <= primary_osc[primary_osc_index(voice, x)].osc.volume
         IN primary_osc[primary_osc_index(voice, sl)].osc.volume

Abs(x) == IF x < 0 THEN -x ELSE x

\* C8: with N primaries on, on any of the PRIMARY_OSC_COUNT slots, and no
\* modulator, the sample one step of a voice returns is the sum of the
\* samples of the primaries that are on, divided by N (0 when N = 0), and
\* its magnitude is at most the largest volume among them.  (out is the
\* sample times AccScale.)
C8_SampleIsMeanOfActive ==
    [][ \A voice \in Voices :
          (StepSimd(voice) /\ ModulatorsOn = {}) =>
             LET on == PrimariesOn(voice)
                 sample == [ sl \in on |->
                    LET osc == primary_osc'[primary_osc_index(voice, sl)]
                    IN Cos(osc.phase + osc.offset) * osc.osc.volume ]
             IN /\ out' * Cardinality(on) = AccScale * SumOver(on, sample)
                /\ on = {} => out' = 0
                /\ Abs(out') <= AccScale * MaxVolume(voice, on)
      ]_vars

\* A voice with primaries on in both lanes has been stepped and has returned
\* a sample that is not 0.
C8_Witness ==
    /\ pc = "bank" /\ call.last = "step"
    /\ ModulatorsOn = {}
    /\ \E a \in PrimariesOn(call.timing), b \in PrimariesOn(call.timing) :
          a < LANE /\ b >= LANE
    /\ out # 0

----------------------------------------------------------------------------
(* Disconnection: C9 under SpecDrain.  The time base: C10 under SpecLife *)

Stamps ==
    { voices[i].env.press : i \in Voices }
      \cup { voices[i].env.release : i \in Voices }

\* C10: transport_time never decreases; the end of a process call adds the
\* block's length to it, once, and no other step (initialize, deactivate,
\* note events, the drain) changes it; so no envelope holds a stamp later
\* than the time base at the end of the block the stamp was taken in.
C10_TimeBaseMonotonic ==
    /\ [][ transport_time' >= transport_time ]_vars
    /\ [][ IF pc = "events" /\ pc' = "idle"
           THEN transport_time' = transport_time + call.samples
           ELSE transport_time' = transport_time ]_vars
    /\ [](\A st \in Stamps :
            st <= transport_time + (IF pc = "idle" THEN 0 ELSE call.samples))

----------------------------------------------------------------------------
(* Persistence: C11 under SpecPersist, C12 under SpecLock *)

\* The bank holds exactly the topology of the snapshot: on every voice a
\* slot the snapshot names is on with the snapshot's values, and every
\* other slot is off.
BankHolds(snapshot) ==
    /\ \A i \in DOMAIN primary_osc :
          LET named == { k \in DOMAIN snapshot.primary_states :
                          snapshot.primary_states[k].slot
                            = i % PRIMARY_OSC_COUNT }
          IN IF named = {} THEN ~primary_osc[i].osc.is_on
             ELSE \E k \in named :
                     /\ primary_osc[i].osc = snapshot.primary_states[k].state
                     /\ primary_osc[i].offset
                          = snapshot.primary_states[k].offset
    /\ \A i \in DOMAIN modulator_osc :
          LET named == { k \in DOMAIN snapshot.modulator_states :
                          snapshot.modulator_states[k].slot
                            = i % MOD_OSC_COUNT }
          IN IF named = {} THEN ~modulator_osc[i].osc.is_on
             ELSE \E k \in named :
                     /\ modulator_osc[i].osc
                          = snapshot.modulator_states[k].state
                     /\ modulator_osc[i].offset
                          = snapshot.modulator_states[k].offset

\* C11: after initialize the engine's topology, envelope parameters,
\* modulation type and gain type equal the persisted values
\* params.solar_system, the ADSR parameters, params.mod_ty and
\* params.gain_ty (the defaults when nothing was persisted).
C11_InitializeRestoresAll ==
    [][ (~active /\ active') =>
          /\ BankHolds(params.solar_system)'
          /\ \A i \in Voices : voices'[i].env.parameters = params.adsr
          /\ settings'.mod_ty = params.mod_ty
          /\ settings'.gain_ty = params.gain_ty
      ]_vars

\* The plugin has been initialized with a saved gain type that is not the
\* default.
C11_Witness ==
    /\ active /\ pc = "idle" /\ transport_time = 0
    /\ params.gain_ty = "Linear"
    /\ params.mod_ty = "Absolute"
    /\ settings.mod_ty = "Absolute"

\* C12: wherever engine state is copied to or from the shared params
\* (deactivate, initialize, the drain of process) the lock is only tried:
\* whatever locks other threads hold, the operation can take its step
\* without waiting.
C12_OnlyTryLock ==
    /\ (~active /\ pc = "idle" /\ ~panicked) => ENABLED Initialize
    /\ (active /\ pc = "idle" /\ ~panicked) => ENABLED Deactivate
    /\ pc = "drain" => ENABLED DrainStep

\* Another thread holds the lock of params.mod_ty while the host is about
\* to initialize the plugin again.
C12_Witness ==
    /\ ~active /\ pc = "idle" /\ transport_time = 0
    /\ params.synth # DefaultOscArray
    /\ ui_locks.mod_ty


----------------------------------------------------------------------------
(* The message kinds: C13 under SpecMsg *)

\* The messages the running process call has drained, oldest first.
Drained ==
    SubSeq(hist.applied, Len(hist.applied) - call.received + 1,
           Len(hist.applied))

\* The positions in Drained of the messages of a kind.
OfKind(kind) == { k \in DOMAIN Drained : Drained[k].kind = kind }

\* The last message of a kind the running call has drained.
LastOfKind(kind) ==
    Drained[CHOOSE k \in OfKind(kind) : \A j \in OfKind(kind) : j <= k]

\* C13: when a process call is about to synthesize its samples, every
\* setting a message drained in this call carries is the engine's: the
\* topology of the last snapshot, the last modulation type, the last gain
\* type and the last reset-phase toggle.
C13_DrainedMessageSetsSetting ==
    pc = "events" =>
      /\ OfKind("StateChange") # {} =>
            BankHolds(LastOfKind("StateChange").state)
      /\ OfKind("ModRelationChanged") # {} =>
            settings.mod_ty = LastOfKind("ModRelationChanged").value
      /\ OfKind("GainChange") # {} =>
            settings.gain_ty = LastOfKind("GainChange").value
      /\ OfKind("ResetPhaseChanged") # {} =>
            settings.reset_phase = LastOfKind("ResetPhaseChanged").flag

\* A process call has drained a reset-phase toggle and is about to
\* synthesize while the host's parameter has the other value.
C13_Witness ==
    /\ pc = "events"
    /\ OfKind("ResetPhaseChanged") # {}
    /\ ~LastOfKind("ResetPhaseChanged").flag
    /\ params.reset_phase


----------------------------------------------------------------------------
(* The envelope: C14 to C17 under SpecEnv *)

\* The envelope the envelope-only specification works on.
Env == voices[0].env

\* A value returned by sample is the number v.
Is(x, v) == ~x.nan /\ x.v = v

\* C14: for an envelope with press set, sample(at) is 0 for every at before
\* the press, whether a release is set or not.
C14_SilentBeforePress ==
    Env.press # None =>
       \A at \in EnvTimes : at < Env.press => Is(envelope_sample(Env, at), 0)

\* The envelope was sampled before its press while a release event is set.
C14_Witness ==
    /\ Env.press # None /\ Env.release # None
    /\ call.at # None /\ call.at < Env.press
    /\ call.value = envelope_sample(Env, call.at)

\* C15: for an envelope released at r, sample(r) is step_linear(r), sample
\* does not increase over [r, r + release], and sample(t) is 0 for every
\* t >= r + release.
C15_ReleaseRampsToZero ==
    (Env.press # None /\ Env.release # None) =>
       LET r == Env.release
           rel == Env.parameters.release
       IN /\ ~envelope_sample(Env, r).nan
          /\ envelope_sample(Env, r) = step_linear(Env, r)
          /\ \A t, u \in EnvTimes :
                (r <= t /\ t <= u /\ u <= r + rel) =>
                   /\ ~envelope_sample(Env, t).nan /\ ~envelope_sample(Env, u).nan
                   /\ envelope_sample(Env, u).v <= envelope_sample(Env, t).v
          /\ \A t \in EnvTimes : t >= r + rel => Is(envelope_sample(Env, t), 0)

\* The envelope was released during its hold stage and sampled inside a
\* release stage that takes time.
C15_Witness ==
    /\ Env.press # None /\ Env.release # None
    /\ Env.parameters.release > 0
    /\ step_linear(Env, Env.release) = F32(One)
    /\ call.at # None
    /\ Env.release < call.at /\ call.at < Env.release + Env.parameters.release
    /\ call.value = envelope_sample(Env, call.at)

\* C16: a stage of no duration is passed over: sample returns a defined
\* value for every at, and with a release stage of no duration and a
\* release at r, sample(at) is 0 for every at >= r.
C16_ZeroStagesDefined ==
    /\ \A at \in EnvTimes : ~envelope_sample(Env, at).nan
    /\ (Env.press # None /\ Env.release # None
          /\ Env.parameters.release = 0) =>
         \A at \in EnvTimes : at >= Env.release => Is(envelope_sample(Env, at), 0)

\* The envelope with no release stage was sampled at its release event.
C16_Witness ==
    /\ Env.press # None /\ Env.release # None
    /\ Env.parameters.release = 0
    /\ call.at = Env.release

\* The envelope has no delay, attack, hold or decay stage.
NoStages ==
    /\ Env.parameters.delay = 0 /\ Env.parameters.attack = 0
    /\ Env.parameters.hold = 0 /\ Env.parameters.decay = 0

\* C17: with delay, attack, hold and decay all 0 and no release event,
\* sample(t) is sustain_level at the press and at every later t.
C17_ImmediateSustain ==
    (NoStages /\ Env.press # None /\ Env.release = None) =>
       \A t \in EnvTimes :
          t >= Env.press =>
             Is(envelope_sample(Env, t), Level(Env.parameters.sustain_level))

\* The envelope without stages was sampled at the instant of its press.
C17_Witness ==
    /\ NoStages /\ Env.press # None /\ Env.release = None
    /\ call.at = Env.press
    /\ call.value = F32(Level(Env.parameters.sustain_level))


----------------------------------------------------------------------------
(* The phase reset of note_on: C18 under SpecPhase *)

\* The slots of a voice in the primary and in the modulator array.
PrimarySlotsOf(v) == { primary_osc_index(v, i) : i \in 0 .. (PRIMARY_OSC_COUNT - 1) }
ModulatorSlotsOf(v) == { modulator_osc_index(v, i) : i \in 0 .. (MOD_OSC_COUNT - 1) }

\* No oscillator outside the given slots changes its phase in this step.
PhasesKeptOutside(pslots, mslots) ==
    /\ \A i \in DOMAIN primary_osc \ pslots :
          primary_osc'[i].phase = primary_osc[i].phase
    /\ \A i \in DOMAIN modulator_osc \ mslots :
          modulator_osc'[i].phase = modulator_osc[i].phase

\* C18: when reset_phase is true, a note_on that takes voice v sets the
\* phase of every primary and every modulator slot of v to 0 and changes no
\* other voice's phase; when reset_phase is false, or the note_on is
\* dropped, no phase changes.
C18_NoteOnResetsOwnPhases ==
    [][ \A note \in LifeNotes, t \in Timings :
          NoteOn(note, t) =>
             IF settings.reset_phase /\ NonOff(voices) # Voices
             THEN \E v \in Voices :
                     /\ is_off(voices[v]) /\ ~is_off(voices'[v])
                     /\ \A i \in PrimarySlotsOf(v) : primary_osc'[i].phase = 0
                     /\ \A i \in ModulatorSlotsOf(v) :
                           modulator_osc'[i].phase = 0
                     /\ PhasesKeptOutside(PrimarySlotsOf(v),
                                          ModulatorSlotsOf(v))
             ELSE PhasesKeptOutside({}, {}) ]_vars

\* With reset_phase true a note_on has just taken voice 0, whose modulator
\* is on and at phase 0, while voice 1 plays with a phase that is not 0.
C18_Witness ==
    /\ pc = "events" /\ call.last = "note_on"
    /\ settings.reset_phase
    /\ voices[0].state = "On" /\ voices[0].env.press = transport_time
    /\ modulator_osc[modulator_osc_index(0, 0)].osc.is_on
    /\ modulator_osc[modulator_osc_index(0, 0)].phase = 0
    /\ ~is_off(voices[1])
    /\ \E i \in PrimarySlotsOf(1) : primary_osc[i].phase # 0


----------------------------------------------------------------------------
(* The phases and the modulation accumulators: C19 and C20 under SpecBank *)

NothingAccumulated(prim, modu, voice) ==
    /\ \A i \in PrimarySlotsOf(voice) : prim[i].mod_counter = 0
    /\ \A i \in ModulatorSlotsOf(voice) : modu[i].mod_counter = 0

\* C20: a sample step of a voice leaves every oscillator of the voice at
\* its baseline, the primaries at (1.0, 0) and the modulators at (0.0, 0),
\* and finds no modulation accumulated by an earlier step.
C20_AccumulatorsResetInStep ==
    [][ \A voice \in Voices :
          (StepSimd(voice) /\ ~panicked') =>
             /\ NothingAccumulated(primary_osc, modulator_osc, voice)
             /\ NothingAccumulated(primary_osc', modulator_osc', voice)
             /\ \A i \in PrimarySlotsOf(voice) :
                   primary_osc'[i].mod_multiplier = 1
             /\ \A i \in ModulatorSlotsOf(voice) :
                   modulator_osc'[i].mod_multiplier = 0 ]_vars

\* A voice was stepped in which a modulator that is on has a modulator of
\* the voice as its parent.
C20_Witness ==
    /\ call.last = "step" /\ ~panicked
    /\ LET osc == modulator_osc[modulator_osc_index(call.timing, 0)].osc
       IN /\ osc.is_on
          /\ osc.parent_osc_slot.kind = "Modulator"
          /\ osc.parent_osc_slot.index < MOD_OSC_COUNT


----------------------------------------------------------------------------
(* The modulation of the primaries: C21 under SpecBank *)

\* The modulators of a voice that are on with the primary slot p as parent.
ModulatorsOf(modu, voice, p) ==
    { i \in ModulatorSlotsOf(voice) :
        /\ modu[i].osc.is_on
        /\ modu[i].osc.parent_osc_slot = Primary(p) }

\* The mean of the modulation samples of a set of modulators, 1.0 for none
\* (every mean is a whole number in the topologies of SpecBank).
MeanModulation(modu, S) ==
    IF S = {} THEN 1
    ELSE SumOver(S, [ i \in S |->
                       1 + Cos(modu[i].phase + modu[i].offset)
                             * modu[i].osc.range ])
           \div Cardinality(S)

\* C21: in one step of a voice with every parent in range, each primary
\* slot p of the voice advances by its frequency times the mean of the
\* modulation samples of the modulators of the voice that are on with
\* parent Primary(p), taken at the phases this step has given them, and by
\* its frequency times 1.0 when there is none; after the step every primary
\* of the voice has mod_counter 0 and mod_multiplier 1.0.
C21_PrimaryModulationIsMean ==
    [][ \A voice \in Voices :
          (StepSimd(voice) /\ ~ParentOutOfRange) =>
             \A p \in 0 .. (PRIMARY_OSC_COUNT - 1) :
                LET idx == primary_osc_index(voice, p)
                    osc == primary_osc[idx]
                    mean == MeanModulation(modulator_osc',
                              ModulatorsOf(modulator_osc', voice, p))
                IN /\ primary_osc'[idx].phase =
                         Fmodf(osc.phase
                                 + freq(osc.osc, voices[voice].freq) * mean,
                               TWOPI)
                   /\ primary_osc'[idx].mod_counter = 0
                   /\ primary_osc'[idx].mod_multiplier = 1 ]_vars

\* A voice was stepped whose primary on slot 0 has a modulator that is on.
C21_Witness ==
    /\ pc = "bank" /\ call.last = "step" /\ ~panicked
    /\ ~ParentOutOfRange
    /\ ModulatorsOf(modulator_osc, call.timing, 0) # {}
    /\ primary_osc[primary_osc_index(call.timing, 0)].osc.is_on


----------------------------------------------------------------------------
(* on_state_change: C22 under SpecReplace *)

\* The entries of a list of a snapshot that name a slot.
EntriesOn(states, slot) == { k \in DOMAIN states : states[k].slot = slot }

\* An oscillator carries the config and offset of one of the entries.
Carries(o, states, K) ==
    \E k \in K : o.osc = states[k].state /\ o.offset = states[k].offset

\* C22: on_state_change(new) replaces the topology: afterwards, in every
\* voice, a primary (modulator) slot is on iff new lists it with is_on (a
\* slot below PRIMARY_OSC_COUNT, resp. MOD_OSC_COUNT), a listed slot has
\* the config and offset new gives it, entries on slots out of range have
\* no effect and do not panic, and every phase is as before.
C22_StateChangeReplaces ==
    [][ \A new \in ReplaceSnapshots :
          OnStateChange(new) =>
             /\ ~panicked'
             /\ DOMAIN primary_osc' = DOMAIN primary_osc
             /\ DOMAIN modulator_osc' = DOMAIN modulator_osc
             /\ \A i \in DOMAIN primary_osc :
                   LET K == EntriesOn(new.primary_states,
                                      i % PRIMARY_OSC_COUNT)
                   IN /\ primary_osc'[i].phase = primary_osc[i].phase
                      /\ primary_osc'[i].osc.is_on <=>
                            \E k \in K : new.primary_states[k].state.is_on
                      /\ K # {} =>
                            Carries(primary_osc'[i], new.primary_states, K)
             /\ \A i \in DOMAIN modulator_osc :
                   LET K == EntriesOn(new.modulator_states,
                                      i % MOD_OSC_COUNT)
                   IN /\ modulator_osc'[i].phase = modulator_osc[i].phase
                      /\ modulator_osc'[i].osc.is_on <=>
                            \E k \in K : new.modulator_states[k].state.is_on
                      /\ K # {} =>
                            Carries(modulator_osc'[i], new.modulator_states,
                                    K) ]_vars

\* A snapshot with entries out of range has just replaced a topology in a
\* bank whose phases had moved: slot 1 is on, slot 0 no longer.
C22_Witness ==
    /\ call.last = "state_change"
    /\ \E k \in DOMAIN hist.applied[1].state.primary_states :
          hist.applied[1].state.primary_states[k].slot >= PRIMARY_OSC_COUNT
    /\ \E i \in DOMAIN primary_osc : primary_osc[i].phase # 0
    /\ primary_osc[primary_osc_index(0, 1)].osc.is_on
    /\ ~primary_osc[primary_osc_index(0, 0)].osc.is_on


----------------------------------------------------------------------------
(* What a sample changes: C23 under SpecFrame *)

\* The voices the bank steps in a process call that starts at time at: the
\* ones that are not Off once the elapsed voices are reclaimed.
SteppedVoices(vs, at) == NonOff(reclaim(vs, at))

\* C23: synthesizing a sample changes no oscillator of a voice that is Off:
\* phase, mod_multiplier and mod_counter change only in the slots of the
\* voices that are stepped, and the step of a voice changes no oscillator
\* of another voice.
C23_OnlySteppedVoicesChange ==
    [][ (SynthProcess /\ ~panicked') =>
          \A v \in Voices \ SteppedVoices(voices, transport_time) :
             /\ \A i \in PrimarySlotsOf(v) : primary_osc'[i] = primary_osc[i]
             /\ \A i \in ModulatorSlotsOf(v) :
                   modulator_osc'[i] = modulator_osc[i] ]_vars

\* A block was synthesized with voice 0 playing and voice 1 Off while a
\* modulator that is on has its parent out of range.
C23_Witness ==
    /\ pc = "idle" /\ transport_time > 0 /\ ~panicked
    /\ ~is_off(voices[0]) /\ is_off(voices[1])
    /\ ParentOutOfRange


----------------------------------------------------------------------------
(* The voices' state and envelope agree: C24 under Spec *)

\* C24: at every moment every voice is Off iff its envelope has no press,
\* Released iff its envelope has a release, and if On has a press and no
\* release; an Off voice has note 0 and freq 0.
C24_StateMatchesEnvelope ==
    \A i \in Voices :
       /\ voices[i].state \in { "Off", "On", "Released" }
       /\ voices[i].state = "Off" <=> voices[i].env.press = None
       /\ voices[i].state = "Released" <=> voices[i].env.release # None
       /\ voices[i].state = "On" =>
             voices[i].env.press # None /\ voices[i].env.release = None
       /\ voices[i].state = "Off" =>
             voices[i].note = 0 /\ voices[i].freq = 0

\* Voice 0 has been pressed, released and reclaimed by a process call, and
\* is Off again, while voice 1, taken when voice 0 was not Off, is still On.
C24_Witness ==
    /\ pc = "idle" /\ transport_time > 0
    /\ voices[0].state = "Off"
    /\ voices[1].state = "On"


----------------------------------------------------------------------------
(* One topology for all voices: C25 under SpecReplace *)

\* C25: whatever snapshots on_state_change was given, every slot has the
\* same config and the same offset in every two voices, primaries and
\* modulators alike.
C25_TopologySameInAllVoices ==
    \A v1 \in Voices, v2 \in Voices :
       /\ \A sl \in 0 .. (PRIMARY_OSC_COUNT - 1) :
             LET a == primary_osc[primary_osc_index(v1, sl)]
                 b == primary_osc[primary_osc_index(v2, sl)]
             IN a.osc = b.osc /\ a.offset = b.offset
       /\ \A sl \in 0 .. (MOD_OSC_COUNT - 1) :
             LET a == modulator_osc[modulator_osc_index(v1, sl)]
                 b == modulator_osc[modulator_osc_index(v2, sl)]
             IN a.osc = b.osc /\ a.offset = b.offset

\* A second snapshot has just been applied to a bank in which the phases
\* of slot 0 differ between two voices, and has turned slot 1 on.
C25_Witness ==
    /\ call.last = "state_change" /\ call.received = 2
    /\ primary_osc[primary_osc_index(0, 0)].phase
         # primary_osc[primary_osc_index(1, 0)].phase
    /\ primary_osc[primary_osc_index(1, 1)].osc.is_on


----------------------------------------------------------------------------
(* A release is not restarted: C26 under Spec *)

\* C26: a voice that is Released keeps the release time of its envelope as
\* long as it stays Released: a further note_off for its note does not
\* stamp it again.
C26_ReleaseNotRestarted ==
    [][ \A i \in Voices :
          (voices[i].state = "Released" /\ voices'[i].state = "Released") =>
             voices'[i].env.release = voices[i].env.release ]_vars

\* A note_off later in the block than the press has just been applied to a
\* voice pressed in an earlier block.
C26_Witness ==
    /\ pc = "events" /\ call.last = "note_off" /\ call.timing > 0
    /\ transport_time > 0
    /\ voices[0].state = "Released"
    /\ voices[0].env.press = 0
    /\ voices[0].env.release = transport_time + call.timing


----------------------------------------------------------------------------
(* The order of the steps of a process call: C27 under SpecOrder *)

\* The order in which a process call passes through its parts.
ProcessOrder ==
    { << "idle", "drain" >>, << "drain", "refresh" >>,
      << "refresh", "events" >>, << "events", "idle" >> }

\* Some voice that is not Off has its release elapsed at the start of the
\* running block: OscArray::process will reclaim it.
SomeVoiceElapsed ==
    \E i \in Voices : after_sampling(voices[i].env, transport_time)

\* C27: a process call drains the control messages, then refreshes the
\* envelope parameters and reset_phase from the host parameters, then
\* applies the note events, then reclaims the elapsed voices and only then
\* synthesizes: messages are taken in the drain part only, the note events
\* see the refreshed parameters, voices turn Off and samples are made only
\* in the last step, and a note_on that finds no Off voice is dropped even
\* if the same call reclaims a voice afterwards.
C27_ProcessStepOrder ==
    /\ [][ pc' # pc => << pc, pc' >> \in ProcessOrder ]_vars
    /\ [][ hist'.applied # hist.applied => pc = "drain" ]_vars
    /\ [](pc = "events" =>
            /\ \A i \in Voices : voices[i].env.parameters = params.adsr
            /\ settings.reset_phase = params.reset_phase)
    /\ [][ (\E i \in Voices : ~is_off(voices[i]) /\ is_off(voices'[i])) =>
             pc = "events" /\ pc' = "idle" ]_vars
    /\ [][ (out' # out \/ transport_time' # transport_time) =>
             pc = "events" /\ pc' = "idle" ]_vars
    /\ [][ \A note \in LifeNotes, t \in Timings :
             (NoteOn(note, t) /\ NonOff(voices) = Voices) =>
                voices' = voices ]_vars

\* A note_on has just been dropped in a call that will reclaim a voice.
C27_Witness ==
    /\ pc = "events" /\ call.last = "dropped"
    /\ NonOff(voices) = Voices
    /\ SomeVoiceElapsed


----------------------------------------------------------------------------
(* Released voices are reclaimed: C28 under SpecLifeFair *)

\* C28: if the host keeps calling process (we take blocks of positive
\* length only), every voice that is Released is Off at some later moment.
C28_ReleasedEventuallyOff ==
    \A i \in Voices :
       ([]<>(pc = "drain")) =>
          [](voices[i].state = "Released" => <>(voices[i].state = "Off"))

\* A process call begins after a deactivation has set the time base back
\* behind the release of a voice that is Released.
C28_Witness ==
    /\ pc = "drain" /\ transport_time = 0
    /\ \E i \in Voices :
          /\ voices[i].state = "Released"
          /\ voices[i].env.release > 0


----------------------------------------------------------------------------
(* The persisted switches: C29 under SpecCom *)

\* The step drains a message of the kind.
Drains(kind) ==
    /\ pc = "drain"
    /\ Len(hist'.applied) = Len(hist.applied) + 1
    /\ hist'.applied[Len(hist'.applied)].kind = kind

\* C29: once process has drained a ModRelationChanged message the persisted
\* params.mod_ty is the bank's mod_ty, and once it has drained a GainChange
\* message the persisted params.gain_ty is the bank's gain_ty, whichever
\* locks the UI thread holds at that moment.
C29_PersistedCopyFollows ==
    [][ /\ Drains("ModRelationChanged") => params'.mod_ty = settings'.mod_ty
        /\ Drains("GainChange") => params'.gain_ty = settings'.gain_ty ]_vars

\* The audio thread has drained a message of one of the two kinds while the
\* UI thread held the lock of the value the message carries.
C29_Witness ==
    /\ pc # "idle" /\ call.received > 0
    /\ \/ ui_locks.mod_ty
          /\ hist.applied[Len(hist.applied)].kind = "ModRelationChanged"
       \/ ui_locks.gain_ty
          /\ hist.applied[Len(hist.applied)].kind = "GainChange"


----------------------------------------------------------------------------
(* renderer/solar_system.rs, renderer/orbital.rs: the editor's tree *)

\* Interaction, orbital.rs:113-131: None, DragNewChild { slot }, DragPlanet,
\* DragOrbit.  The pointer's location is an input of every frame.
Interaction(kind, slot) == [ kind |-> kind, slot |-> slot ]

\* Orbital::new_primary: the orbital's slot, its interaction and its
\* children.  Radius, offset and speed are left to the pointer.
new_primary(slot) ==
    [ osc_slot |-> slot, interaction |-> Interaction("None", None),
      children |-> << >> ]

\* SlotAllocator::default
DefaultSlotAllocator ==
    [ primary_slots |-> [ s \in 0 .. (PRIMARY_OSC_COUNT - 1) |-> FALSE ],
      mod_slots |-> [ s \in 0 .. (MOD_OSC_COUNT - 1) |-> FALSE ] ]

\* SlotAllocator::allocate_primary: the first slot that is not taken
allocate_primary(allocator) ==
    LET free == { s \in DOMAIN allocator.primary_slots :
                    ~allocator.primary_slots[s] }
    IN IF free = {} THEN [ allocator |-> allocator, slot |-> None ]
       ELSE LET slot_idx == CHOOSE s \in free : \A t \in free : s <= t
            IN [ allocator |->
                   [ allocator EXCEPT !.primary_slots[slot_idx] = TRUE ],
                 slot |-> slot_idx ]

\* SlotAllocator::free_primary
free_primary(allocator, slot) ==
    IF slot < PRIMARY_OSC_COUNT
    THEN [ allocator EXCEPT !.primary_slots[slot] = FALSE ]
    ELSE allocator

\* SlotAllocator::allocate_mod
allocate_mod(allocator) ==
    LET free == { s \in DOMAIN allocator.mod_slots :
                    ~allocator.mod_slots[s] }
    IN IF free = {} THEN [ allocator |-> allocator, slot |-> None ]
       ELSE LET slot_idx == CHOOSE s \in free : \A t \in free : s <= t
            IN [ allocator |->
                   [ allocator EXCEPT !.mod_slots[slot_idx] = TRUE ],
                 slot |-> slot_idx ]

\* SlotAllocator::free_mod
free_mod(allocator, slot) ==
    IF slot < MOD_OSC_COUNT
    THEN [ allocator EXCEPT !.mod_slots[slot] = FALSE ]
    ELSE allocator

\* An orbital is named by its path: its position among the primaries, then
\* the position of each child on the way down.  A frame of the editor
\* carries the events of the egui Response and, for the pointer's location,
\* the orbital it is on (target, << >> for empty space) and whether it is on
\* its planet, its orbit handle or both.

\* Orbital::is_on_orbit_handle at the frame's pointer location
is_on_orbit_handle(frame, path) ==
    frame.target = path /\ frame.hit \in { "handle", "both" }

\* Orbital::is_on_planet at the frame's pointer location
is_on_planet(frame, path) ==
    frame.target = path /\ frame.hit \in { "planet", "both" }

RECURSIVE on_drag_start(_, _, _, _)
RECURSIVE on_drag_start_children(_, _, _, _, _)

\* Orbital::on_drag_start: the orbital after the call, what is left of the
\* slot candidate, and the value returned
on_drag_start(orb, path, frame, slot_candidates) ==
    LET handle == is_on_orbit_handle(frame, path)
        planet == is_on_planet(frame, path)
        used == IF handle THEN TRUE
                ELSE planet /\ slot_candidates # None
        self == IF handle /\ planet
                THEN [ orb EXCEPT !.interaction =
                                     Interaction("DragPlanet", None) ]
                ELSE IF handle
                THEN [ orb EXCEPT !.interaction =
                                     Interaction("DragOrbit", None) ]
                ELSE IF planet /\ slot_candidates # None
                THEN [ orb EXCEPT !.interaction =
                          Interaction("DragNewChild", slot_candidates) ]
                ELSE orb
        \* slot_candidates.take()
        left == IF ~handle /\ planet THEN None ELSE slot_candidates
    IN IF used
       THEN [ orb |-> self, cand |-> left, ret |-> FALSE ]
       ELSE The({ [ orb |-> [ self EXCEPT !.children = r.children ],
                    cand |-> r.cand, ret |-> r.ret ] :
                  r \in { on_drag_start_children(self.children, 1, path,
                                                 frame, left) } })

\* the loop over the children in on_drag_start, from child k on
on_drag_start_children(children, k, path, frame, slot_candidates) ==
    IF k > Len(children)
    THEN [ children |-> children, cand |-> slot_candidates, ret |-> FALSE ]
    ELSE The({ IF r.ret
               THEN [ children |-> [ children EXCEPT ![k] = r.orb ],
                      cand |-> r.cand, ret |-> TRUE ]
               ELSE on_drag_start_children([ children EXCEPT ![k] = r.orb ],
                                           k + 1, path, frame, r.cand) :
               r \in { on_drag_start(children[k], Append(path, k), frame,
                                     slot_candidates) } })

RECURSIVE on_drag_end(_)
\* Orbital::on_drag_end: a child that was being dragged out becomes a child
\* on its slot, and the release is passed down
on_drag_end(orb) ==
    LET children == IF orb.interaction.kind = "DragNewChild"
                    THEN Append(orb.children,
                                new_primary(orb.interaction.slot))
                    ELSE orb.children
    IN [ osc_slot |-> orb.osc_slot,
         interaction |-> Interaction("None", None),
         children |-> [ k \in 1 .. Len(children) |->
                          on_drag_end(children[k]) ] ]

RECURSIVE deallocat_all(_, _)
\* Orbital::deallocat_all of each orbital of a list of children
deallocat_all(children, allocator) ==
    IF children = << >> THEN allocator
    ELSE deallocat_all(Tail(children),
            deallocat_all(Head(children).children,
                          free_mod(allocator, Head(children).osc_slot)))

RECURSIVE on_delete(_, _, _, _)
RECURSIVE on_delete_children(_, _, _, _, _)

\* Orbital::on_delete: the orbital and the allocator after the call, and
\* whether the orbital is to be removed
on_delete(orb, path, frame, allocator) ==
    IF is_on_orbit_handle(frame, path) \/ is_on_planet(frame, path)
    THEN [ orb |-> orb,
           allocator |-> deallocat_all(orb.children, allocator),
           ret |-> TRUE ]
    ELSE The({ [ orb |-> [ orb EXCEPT !.children = r.children ],
                 allocator |-> r.allocator, ret |-> FALSE ] :
               r \in { on_delete_children(orb.children, Len(orb.children),
                                          path, frame, allocator) } })

\* the reverse loop over the children in on_delete, from child i down
on_delete_children(children, i, path, frame, allocator) ==
    IF i < 1 THEN [ children |-> children, allocator |-> allocator ]
    ELSE The({ IF r.ret
               THEN on_delete_children(
                       SubSeq(children, 1, i - 1)
                         \o SubSeq(children, i + 1, Len(children)),
                       i - 1, path, frame,
                       free_mod(r.allocator, children[i].osc_slot))
               ELSE on_delete_children([ children EXCEPT ![i] = r.orb ],
                                       i - 1, path, frame, r.allocator) :
               r \in { on_delete(children[i], Append(path, i), frame,
                                 allocator) } })

RECURSIVE build_solar_state(_, _, _)
\* Orbital::build_solar_state of each orbital of a list, in order: the
\* orbital, the child being dragged out of it, then its children.  A
\* parent_slot of kind "None" is the None of a primary.
build_solar_state(orbitals, builder, parent_slot) ==
    IF orbitals = << >> THEN builder
    ELSE LET orb == Head(orbitals)
             own == IF parent_slot.kind # "None"
                    THEN [ builder EXCEPT !.modulator_states =
                             Append(@, ModulatorState(orb.osc_slot,
                                                      parent_slot, 1, 0, 0)) ]
                    ELSE [ builder EXCEPT !.primary_states =
                             Append(@, PrimaryState(orb.osc_slot, 0, 1, 0)) ]
             down == IF parent_slot.kind # "None"
                     THEN Modulator(orb.osc_slot)
                     ELSE Primary(orb.osc_slot)
             tmp == IF orb.interaction.kind = "DragNewChild"
                    THEN build_solar_state(
                            << new_primary(orb.interaction.slot) >>, own,
                            down)
                    ELSE own
             with_children == build_solar_state(orb.children, tmp, down)
         IN build_solar_state(Tail(orbitals), with_children, parent_slot)

\* SolarSystem::get_solar_state
get_solar_state(sys) ==
    build_solar_state(sys.orbitals, NoSolarState,
                      [ kind |-> "None", index |-> None ])

\* Option<ParentIndex>::None
NoIndex == [ kind |-> "None", index |-> None ]

RECURSIVE PathsOf(_, _)
\* The paths of the orbitals of a list and of their descendants.
PathsOf(orbitals, prefix) ==
    UNION { { Append(prefix, k) }
              \cup PathsOf(orbitals[k].children, Append(prefix, k)) :
            k \in DOMAIN orbitals }

RECURSIVE NodeAt(_, _)
\* The orbital at a path.
NodeAt(orbitals, path) ==
    IF Len(path) = 1 THEN orbitals[path[1]]
    ELSE NodeAt(orbitals[path[1]].children, Tail(path))

\* Orbital::on_select, called at solar_system.rs:205-212: the index of the
\* orbital under the pointer, a primary on the top level and a modulator
\* below it.
on_select(orbitals, frame) ==
    IF frame.target = << >> THEN NoIndex
    ELSE IF Len(frame.target) = 1
    THEN Primary(NodeAt(orbitals, frame.target).osc_slot)
    ELSE Modulator(NodeAt(orbitals, frame.target).osc_slot)

RECURSIVE find_index_mut(_, _, _, _)
\* SolarSystem::get_selected_orbital with Orbital::find_index_mut: the path
\* of the first orbital with the index, from orbital k of the list on;
\* << >> if there is none.
find_index_mut(orbitals, k, prefix, index) ==
    IF k > Len(orbitals) THEN << >>
    ELSE LET own == IF prefix = << >> THEN Primary(orbitals[k].osc_slot)
                    ELSE Modulator(orbitals[k].osc_slot)
         IN IF own = index THEN Append(prefix, k)
            ELSE LET below == find_index_mut(orbitals[k].children, 1,
                                             Append(prefix, k), index)
                 IN IF below # << >> THEN below
                    ELSE find_index_mut(orbitals, k + 1, prefix, index)

RECURSIVE spawn_child(_, _, _)
\* Orbital::spawn_child(index) on the orbital at the path: a new child on
\* the slot.
spawn_child(orbitals, path, index) ==
    IF Len(path) = 1
    THEN [ orbitals EXCEPT ![path[1]].children =
                              Append(@, new_primary(index)) ]
    ELSE [ orbitals EXCEPT ![path[1]].children =
                              spawn_child(@, Tail(path), index) ]

\* SolarSystem::insert_primary
insert_primary(sys) ==
    LET a == allocate_primary(sys.allocator)
    IN IF a.slot = None THEN sys
       ELSE [ sys EXCEPT !.allocator = a.allocator,
                         !.orbitals = Append(@, new_primary(a.slot)),
                         !.selected = Primary(a.slot) ]

RECURSIVE delete_primaries(_, _, _, _)
\* the reverse loop over the primaries on a secondary click,
\* solar_system.rs:230-235, from orbital `orbit` down
delete_primaries(orbitals, orbit, frame, allocator) ==
    IF orbit < 1 THEN [ orbitals |-> orbitals, allocator |-> allocator ]
    ELSE The({ IF r.ret
               THEN delete_primaries(
                       SubSeq(orbitals, 1, orbit - 1)
                         \o SubSeq(orbitals, orbit + 1, Len(orbitals)),
                       orbit - 1, frame,
                       free_primary(r.allocator, orbitals[orbit].osc_slot))
               ELSE delete_primaries([ orbitals EXCEPT ![orbit] = r.orb ],
                                     orbit - 1, frame, r.allocator) :
               r \in { on_delete(orbitals[orbit], << orbit >>, frame,
                                 allocator) } })

\* handle_response, solar_system.rs:139-149: handle child add if needed
handle_child_add(sys) ==
    IF ~sys.is_add_child THEN sys
    ELSE The({ IF a.slot = None
               THEN [ sys EXCEPT !.is_add_child = FALSE ]
               ELSE IF sel # << >>
               THEN [ sys EXCEPT !.is_add_child = FALSE,
                                 !.allocator = a.allocator,
                                 !.orbitals = spawn_child(@, sel, a.slot),
                                 !.selected = Modulator(a.slot) ]
               ELSE [ sys EXCEPT !.is_add_child = FALSE,
                                 !.allocator =
                                    free_mod(a.allocator, a.slot) ] :
               a \in { allocate_mod(sys.allocator) },
               sel \in { IF sys.selected = NoIndex THEN << >>
                         ELSE find_index_mut(sys.orbitals, 1, << >>,
                                             sys.selected) } })

\* handle_response, solar_system.rs:163-180: response.drag_started().  The
\* loop over the primaries ends at the first whose on_drag_start reports
\* the drag as taken; a candidate slot nobody took is freed again.
handle_drag_started(sys, frame) ==
    IF "drag_started" \notin frame.events
    THEN [ sys |-> sys, click_taken |-> FALSE ]
    ELSE The({ The({ [ sys |-> [ sys EXCEPT
                                   !.orbitals = d.children,
                                   !.allocator =
                                      IF d.cand # None
                                      THEN free_mod(c.allocator, d.cand)
                                      ELSE c.allocator ],
                       click_taken |-> d.ret ] :
                     d \in { on_drag_start_children(sys.orbitals, 1, << >>,
                                                    frame, c.slot) } }) :
               c \in { allocate_mod(sys.allocator) } })

\* handle_response, solar_system.rs:193-199: response.drag_released()
handle_drag_released(sys, frame) ==
    IF "drag_released" \notin frame.events THEN sys
    ELSE [ sys EXCEPT !.orbitals =
              [ k \in 1 .. Len(sys.orbitals) |->
                  on_drag_end(sys.orbitals[k]) ] ]

\* handle_response, solar_system.rs:202-219: response.clicked() &&
\* !click_taken selects the orbital under the pointer or inserts a primary
handle_clicked(sys, frame, click_taken) ==
    IF "clicked" \notin frame.events \/ click_taken THEN sys
    ELSE IF on_select(sys.orbitals, frame) # NoIndex
    THEN [ sys EXCEPT !.selected = on_select(sys.orbitals, frame) ]
    ELSE insert_primary(sys)

\* handle_response, solar_system.rs:229-251:
\* button_released(PointerButton::Secondary) deletes the orbitals under the
\* pointer and drops a selection whose slot is free now
handle_secondary_released(sys, frame) ==
    IF "secondary_released" \notin frame.events THEN sys
    ELSE The({ [ sys EXCEPT
                   !.orbitals = r.orbitals,
                   !.allocator = r.allocator,
                   !.selected =
                      IF \/ /\ sys.selected.kind = "Primary"
                            /\ ~r.allocator.primary_slots[sys.selected.index]
                         \/ /\ sys.selected.kind = "Modulator"
                            /\ ~r.allocator.mod_slots[sys.selected.index]
                      THEN NoIndex ELSE @ ] :
               r \in { delete_primaries(sys.orbitals, Len(sys.orbitals),
                                        frame, sys.allocator) } })

\* SolarSystem::handle_response for a frame with a pointer location: the
\* system after the call and whether a StateChange is sent.  Hovering,
\* dragging and scrolling change the geometry and the speed of orbitals
\* only; is_dirty is not set.
handle_response(sys, frame) ==
    The({ The({ [ sys |-> s5,
                  send |-> \/ d.click_taken
                           \/ frame.events
                                \cap { "dragged", "clicked",
                                       "secondary_released" } # {} ] :
                s5 \in { handle_secondary_released(s4, frame) :
                         s4 \in { handle_clicked(s3, frame, d.click_taken) :
                                  s3 \in { handle_drag_released(d.sys,
                                                                frame) } } }
              }) :
          d \in { handle_drag_started(s1, frame) :
                  s1 \in { handle_child_add(sys) } } })

RECURSIVE Planets(_)
\* SolarSystem::new() for one planet; with more, the system after a click
\* on empty space for each further planet.
Planets(n) ==
    IF n = 0
    THEN [ orbitals |-> << >>, allocator |-> DefaultSlotAllocator,
           selected |-> NoIndex, is_add_child |-> FALSE ]
    ELSE insert_primary(Planets(n - 1))

\* The events of the egui Response in one frame of the model.
FrameEvents ==
    { {}, { "drag_started" }, { "dragged" }, { "drag_released" },
      { "clicked" }, { "secondary_released" },
      { "drag_started", "dragged" },
      { "drag_released", "secondary_released" } }

\* The frames the pointer can produce over a system.
Frames(sys) ==
    { [ events |-> e, target |-> << >>, hit |-> "none" ] : e \in FrameEvents }
    \cup [ events : FrameEvents, target : PathsOf(sys.orbitals, << >>),
           hit : { "planet", "handle", "both" } ]

\* The systems the editor starts from: SolarSystem::new(), and the system
\* with every primary slot taken and a moon around the last planet.
EditStarts ==
    { Planets(1),
      handle_response(
         [ Planets(PRIMARY_OSC_COUNT) EXCEPT !.is_add_child = TRUE ],
         [ events |-> {}, target |-> << >>, hit |-> "none" ]).sys }

\* The plugin with its editor open and the audio thread not running:
\* params.solar_system is the editor's SolarSystem itself.
InitEdit ==
    /\ voices = [ i \in Voices |-> DefaultVoice ]
    /\ primary_osc = DefaultPrimaryBank
    /\ modulator_osc = DefaultModulatorBank
    /\ settings = DefaultSettings
    /\ transport_time = 0
    /\ \E sys \in EditStarts :
          params = [ adsr |-> DefaultAdsr, reset_phase |-> TRUE,
                     mod_ty |-> "Relative", gain_ty |-> "Sigmoid",
                     synth |-> DefaultOscArray, solar_system |-> sys ]
    /\ chan = << >>
    /\ connected = TRUE
    /\ ui_locks = [ mod_ty |-> FALSE, gain_ty |-> FALSE,
                    solar_system |-> FALSE, synth |-> FALSE ]
    /\ active = FALSE
    /\ pc = "idle"
    /\ call = IdleCall
    /\ hist = [ sent |-> << >>, applied |-> << >>, logs |-> 0 ]
    /\ out = 0
    /\ panicked = FALSE

\* One frame of the editor: SolarSystem::handle_response with the send at
\* its end; call.received counts the frames.
HandleResponse(frame) ==
    /\ call.received < MaxFrames
    /\ \E r \in { handle_response(params.solar_system, frame) } :
          /\ params' = [ params EXCEPT !.solar_system = r.sys ]
          /\ IF r.send
             THEN \E msg \in { StateChange(get_solar_state(r.sys)) } :
                     /\ chan' = Append(chan, msg)
                     /\ hist' = [ hist EXCEPT !.sent = Append(@, msg) ]
             ELSE UNCHANGED << chan, hist >>
    /\ call' = [ call EXCEPT !.received = @ + 1 ]
    /\ UNCHANGED << voices, primary_osc, modulator_osc, settings,
                    transport_time, connected, ui_locks, active, pc, out,
                    panicked >>

\* The editor's button sets is_add_child (solar_system.rs:86-88): a child
\* is added to the selected orbital on the next frame.
AddChildButton ==
    /\ ~params.solar_system.is_add_child
    /\ params' = [ params EXCEPT !.solar_system.is_add_child = TRUE ]
    /\ UNCHANGED << voices, primary_osc, modulator_osc, settings,
                    transport_time, chan, connected, ui_locks, active, pc,
                    call, hist, out, panicked >>

NextEdit ==
    \/ \E frame \in Frames(params.solar_system) : HandleResponse(frame)
    \/ AddChildButton

SpecEdit == InitEdit /\ [][NextEdit]_vars


----------------------------------------------------------------------------
(* The editor's slots: C30 under SpecEdit *)

\* The editor's system and the paths of its orbitals.
System == params.solar_system
Paths == PathsOf(System.orbitals, << >>)

\* The primaries, the modulators and the children being dragged out that
\* use a slot.
PlanetsOnSlot(s) ==
    { p \in Paths : Len(p) = 1 /\ NodeAt(System.orbitals, p).osc_slot = s }
ChildrenOnSlot(s) ==
    { p \in Paths : Len(p) > 1 /\ NodeAt(System.orbitals, p).osc_slot = s }
DragsOnSlot(s) ==
    { p \in Paths : NodeAt(System.orbitals, p).interaction
                      = Interaction("DragNewChild", s) }

\* No two entries of a list of the snapshot name the same slot.
SlotsOnce(states) ==
    \A j, k \in DOMAIN states : states[j].slot = states[k].slot => j = k

\* C30: whatever the editor has done (primaries inserted, children added or
\* dragged out, orbitals deleted), no two orbitals of the tree share a slot
\* of the same kind; a slot is taken in the allocator exactly if an orbital
\* of the tree or a child being dragged out uses it; inserting a primary
\* when no slot is free changes neither the tree nor the allocator; and
\* get_solar_state lists no primary slot and no modulator slot twice.
C30_SlotsAccounted ==
    /\ \A s \in DOMAIN System.allocator.primary_slots :
          /\ Cardinality(PlanetsOnSlot(s)) <= 1
          /\ System.allocator.primary_slots[s] <=> PlanetsOnSlot(s) # {}
    /\ \A s \in DOMAIN System.allocator.mod_slots :
          /\ Cardinality(ChildrenOnSlot(s)) <= 1
          /\ System.allocator.mod_slots[s]
               <=> (ChildrenOnSlot(s) \cup DragsOnSlot(s)) # {}
    /\ allocate_primary(System.allocator).slot = None =>
          /\ insert_primary(System).orbitals = System.orbitals
          /\ insert_primary(System).allocator = System.allocator
    /\ SlotsOnce(get_solar_state(System).primary_states)
    /\ SlotsOnce(get_solar_state(System).modulator_states)

\* The editor has handled a frame, and a child is being dragged out of an
\* orbital on a slot the allocator has given it.
C30_Witness ==
    /\ call.received > 0
    /\ \E s \in DOMAIN System.allocator.mod_slots :
          /\ System.allocator.mod_slots[s]
          /\ DragsOnSlot(s) # {}

====
